---- MODULE Spec2Model ----
(***************************************************************************)
(* Session lifecycle of the MIRCrew smart indexer: AuthManager (login,     *)
(* login-state probe, cookie persistence), the proactive renewal loop and  *)
(* the threads that use the shared requests.Session.                       *)
(***************************************************************************)
EXTENDS Integers, Sequences, FiniteSets, TLC

\* ------------------------------------------------------------------ bounds
\* login(retries=...) is drawn from 0..MaxRetries
MaxRetries == 3
\* distinct non-empty cookie-jar contents the site can hand out
MaxSid == 1
\* most structural markers one forum page carries
MaxMarkers == 2

\* threads one site search can list
MaxThreads == 6
\* season and episode numbers the tracker and the filter deal with
MaxSeason == 2
MaxEpisode == 1
\* records one search aggregates
MaxRecords == 2
\* words of one title or of one file name
MaxWords == 2
\* release links of one thread page
MaxLinks == 2
\* the retries argument of a login whose waits are followed
MaxAttempts == 9
\* like requests begun in one run
MaxRequests == 2

\* --------------------------------------------------------- program constants
initial_wait == 5
WaitCap == 300
max_consecutive_failures == 3
\* threads[:5]
MaxExpand == 5
\* range(3)
MaxTrackerAttempts == 3
\* None, for a season or an episode number
NoNumber == 0 - 1

VARIABLES
    username,              \* settings.mircrew_username: "none" | "empty" | "set"
    password,              \* settings.mircrew_password: "none" | "empty" | "set"
    retries,               \* the retries argument of login()
    jar,                   \* self.session.cookies: 0 = no sid cookie, else a sid
    blob,                  \* the cookie file: missing, partial, or a pickled jar
    pc,                    \* position of each thread
    attempt,               \* login(): the loop variable, per thread
    ret,                   \* login(): value returned to the caller, per thread
    consecutive_failures,  \* _proactive_auth_loop local
    stats,                 \* per login call: what the call has done so far
    streak,                \* login failures in renewal cycles since the last healthy cycle
    login_failures,        \* failed login calls of the loop since its last successful one
    probe,                 \* last evaluation of is_already_logged_in on its own
    boot,                  \* how this run of the process began, until startup ends
    prior,                 \* the cookie file as it was before the write under way
    season,                \* search: the season argument (NoNumber = None)
    sonarr_api,            \* settings.sonarr_api_key is set
    threads,               \* search: the thread ids _find_series_threads returned
    idx,                   \* search: threads of threads[:5] gone through so far
    all_episodes,          \* search: the aggregated records
    yielded,               \* search: the records the fetched pages carried, in order
    fetched,               \* search: thread ids whose page was requested, in order
    thread_failed,         \* search: the fetch of some thread page failed
    searched,              \* search: the site search request: "no" | "ok" | "error"
    authed,                \* search: login() returned success in this search
    tracker,               \* search: what the last call of the tracker came to
    tracker_calls,         \* search: calls of get_missing_episodes
    result,                \* search: the list returned
    api_jar,               \* api_auth.auth.session.cookies, as jar
    words,                 \* parsing: the words the text is made of
    text,                  \* parsing: the argument, a tuple of characters
    info,                  \* parsing: what extract_episode_info came to
    parsed,                \* parsing: what _parse_episode_from_filename returned
    links,                 \* expansion: the release links of the thread page
    expanded,              \* expansion: what _expand_thread_episodes returned
    reply,                 \* search: the document sent for the Torznab request
    backoff,               \* login(): wait_time and actual_wait of the attempt
    click,                 \* click_like_if_present and the page fetch after it
    in_season,             \* contains_season: "none" until it has returned
    db_likes,              \* user_thread_likes: the rows of each user, by id
    db_history,            \* like_history: the rows, by id
    db_like_count,         \* thread_metadata_cache: the row of the thread
    cache_count,           \* CacheService: the entry thread:likes:<thread>
    cache_marks,           \* CacheService: users with an entry thread:like:..
    frames,                \* like_thread: the locals of each request under way
    begun                  \* like_thread: requests begun so far

\* the record of the process runs and of the writes to the cookie file
dvars == <<boot, prior>>

\* the arguments and results of the parsers and of the thread expansion
\* the like API of app.py: database rows, cache entries, requests
lvars == <<db_likes, db_history, db_like_count, cache_count, cache_marks,
           frames, begun>>

\* what is computed on the way of a login, a thread fetch, a title check
xvars == <<backoff, click, in_season, lvars>>

pvars == <<words, text, info, parsed, links, expanded, xvars>>

\* the state of one search, and of the parsers it calls
svars == <<season, sonarr_api, threads, idx, all_episodes, yielded, fetched,
           thread_failed, searched, authed, tracker, tracker_calls, result,
           reply, pvars>>

vars == <<username, password, retries, jar, blob, pc, attempt, ret,
          consecutive_failures, stats, streak, login_failures, probe, dvars,
          svars, api_jar>>

Threads == {"main", "bg", "req"}
CredVals == {"none", "empty", "set"}
JarVals == 0..MaxSid
\* the cookie file: absent, truncated or otherwise unreadable, or a whole pickle
NoFile == [state |-> "missing", jar |-> 0]
PartialFile == [state |-> "partial", jar |-> 0]
Pickled(j) == [state |-> "ok", jar |-> j]
BlobVals == {NoFile, PartialFile} \cup {Pickled(j) : j \in JarVals}

\* ---------------------------------------------------------------- the forum
\* A page is the set of structural markers the BeautifulSoup lookups can find.
Markers == {"login_form", "logout_href", "user_elem", "user_strong",
            "logout_text", "welcome_text", "user_panel", "user_info",
            "error_text", "error_div"}
Pages == {p \in SUBSET Markers : Cardinality(p) <= MaxMarkers}
Statuses == {200, 201, 302, 404, 500}
\* a request either raises a RequestException or yields a status and a page
Responses == {[kind |-> "exc", status |-> 0, page |-> {}]}
             \cup [kind : {"http"}, status : Statuses, page : Pages]

\* resp.raise_for_status()
RaisesForStatus(resp) == resp.status >= 400

\* find_all(['span', 'div', 'a'], string=re.compile(f'(?i){re.escape(username)}')):
\* an empty username gives the pattern '(?i)', which matches every string
username_elements(page, user) ==
    IF user = "empty"
    THEN page \cap {"user_elem", "logout_text"} /= {}
    ELSE "user_elem" \in page

\* AuthManager.is_already_logged_in: the probe of index.php
is_already_logged_in_markers_first(resp, user) ==
    /\ resp.kind = "http"
    /\ ~RaisesForStatus(resp)
    /\ user /= "none"
    /\ \/ "logout_href" \in resp.page
       \/ username_elements(resp.page, user)

is_already_logged_in(resp, user) ==
    IF resp.kind = "exc" THEN FALSE                    \* except Exception
    ELSE IF RaisesForStatus(resp) THEN FALSE           \* HTTPError, caught
    ELSE IF "login_form" \in resp.page THEN FALSE
    ELSE IF user = "none" THEN FALSE                   \* re.escape(None): TypeError, caught
    ELSE "logout_href" \in resp.page \/ username_elements(resp.page, user)

\* login.is_logged_in: the check of the page that answers the credential POST
is_logged_in(page, user) ==
    IF page \cap {"error_text", "error_div", "login_form"} /= {} THEN FALSE
    ELSE \/ page \cap {"logout_href", "logout_text", "user_strong",
                       "welcome_text", "user_panel", "user_info"} /= {}
         \/ username_elements(page, user)

\* (variant: the wait is not capped)
wait_time_uncapped(att) == initial_wait * (2 ^ (att - 1))

\* min(initial_wait * (2 ** (attempt - 1)), 300)
wait_time(att) ==
    IF initial_wait * (2 ^ (att - 1)) < WaitCap
    THEN initial_wait * (2 ^ (att - 1)) ELSE WaitCap
\* random.uniform(0.5, 1.5), in halves
Jitter == {1, 2, 3}

\* what each request of login() and of the probe can come to, over every
\* response of the forum
ProbeOutcomes == [u \in CredVals |->
                    {is_already_logged_in(r, u) : r \in Responses}]

\* session.get(login_url): "exc" RequestException or bad status, "noform",
\* "form"
FormOutcome(resp) ==
    IF resp.kind = "exc" \/ RaisesForStatus(resp) THEN "exc"
    ELSE IF "login_form" \notin resp.page THEN "noform"
    ELSE "form"
GetOutcomes == {FormOutcome(r) : r \in Responses}

\* session.post(form_action): "exc", "badstatus", "accepted", "rejected"
SubmitOutcome(resp, user) ==
    IF resp.kind = "exc" THEN "exc"
    ELSE IF resp.status \notin {200, 302} THEN "badstatus"
    ELSE IF is_logged_in(resp.page, user) THEN "accepted"
    ELSE "rejected"
PostOutcomes == [u \in CredVals |-> {SubmitOutcome(r, u) : r \in Responses}]

\* ------------------------------------------------ texts and their patterns
\* A text is a tuple of one-character strings.
DigitChars == <<"0", "1", "2", "3", "4", "5", "6", "7", "8", "9">>
IsDigit(c) == \E d \in 1..10 : DigitChars[d] = c
DigitVal(c) == (CHOOSE d \in 1..10 : DigitChars[d] = c) - 1
IsSpace(c) == c = " "
\* [\s\-to]
IsRangeSep(c) == c \in {" ", "-", "t", "o"}

\* (variant: the patterns compare the letters as they are written)
fold_case_sensitive(c) == c

\* re.IGNORECASE: the letters are compared in lower case
fold(c) ==
    CASE c = "S" -> "s" [] c = "E" -> "e" [] c = "C" -> "c"
      [] c = "F" -> "f" [] c = "P" -> "p" [] c = "X" -> "x"
      [] OTHER -> c

\* the literal w (in lower case) stands at position p of t
lit(t, p, w) ==
    /\ p + Len(w) - 1 <= Len(t)
    /\ \A k \in 1..Len(w) : fold(t[p + k - 1]) = w[k]

\* the length of the longest run of characters of one class from position p
RunLen(t, p, In(_)) ==
    LET ends == {q \in p..(Len(t) + 1) : q = Len(t) + 1 \/ ~In(t[q])}
    IN (CHOOSE q \in ends : \A r \in ends : q <= r) - p

\* \s*
spaces(t, p) == p + RunLen(t, p, IsSpace)

\* int() of the n digits from position p
RECURSIVE int(_, _, _)
int(t, p, n) ==
    IF n = 0 THEN 0 ELSE int(t, p, n - 1) * 10 + DigitVal(t[p + n - 1])

\* (\d{1,k}) at the end of a pattern: as many digits as there are, k at most
UpTo(t, p, k) == IF RunLen(t, p, IsDigit) < k THEN RunLen(t, p, IsDigit) ELSE k

\* no match of a pattern at a position; a match is the tuple of its groups
NoMatch == <<>>

\* re.search: the match at the leftmost position that has one
search(t, M(_, _)) ==
    LET hits == {i \in 1..Len(t) : M(t, i) /= NoMatch}
    IN IF hits = {} THEN NoMatch
       ELSE M(t, CHOOSE i \in hits : \A j \in hits : i <= j)

\* w1\s*w2\s*(\d+)
words_number(t, i, w1, w2) ==
    IF ~lit(t, i, w1) THEN NoMatch
    ELSE LET p == spaces(t, i + Len(w1))
         IN IF ~lit(t, p, w2) THEN NoMatch
            ELSE LET q == spaces(t, p + Len(w2))
                     n == RunLen(t, q, IsDigit)
                 IN IF n = 0 THEN NoMatch ELSE <<int(t, q, n)>>

\* s(\d{1,2})\s*w: the digits are followed by no digit
s_number_word(t, i, w) ==
    IF ~lit(t, i, <<"s">>) THEN NoMatch
    ELSE LET n == RunLen(t, i + 1, IsDigit)
         IN IF n = 0 \/ n > 2 \/ ~lit(t, spaces(t, i + 1 + n), w)
            THEN NoMatch ELSE <<int(t, i + 1, n)>>

w_complete == <<"c", "o", "m", "p", "l", "e", "t", "e">>
w_full == <<"f", "u", "l", "l">>
w_season == <<"s", "e", "a", "s", "o", "n">>
w_pack == <<"p", "a", "c", "k">>
w_episode == <<"e", "p", "i", "s", "o", "d", "e">>
w_episodio == <<"e", "p", "i", "s", "o", "d", "i", "o">>
w_stagion == <<"s", "t", "a", "g", "i", "o", "n">>
w_stagione == <<"s", "t", "a", "g", "i", "o", "n", "e">>

\* complete\s*season\s*(\d+)
pack_complete_season(t, i) == words_number(t, i, w_complete, w_season)
\* full\s*season\s*(\d+)
pack_full_season(t, i) == words_number(t, i, w_full, w_season)
\* season\s*(\d+)\s*pack
pack_season_pack(t, i) ==
    IF ~lit(t, i, w_season) THEN NoMatch
    ELSE LET q == spaces(t, i + 6)
             n == RunLen(t, q, IsDigit)
         IN IF n = 0 \/ ~lit(t, spaces(t, q + n), w_pack)
            THEN NoMatch ELSE <<int(t, q, n)>>
\* s(\d{1,2})\s*complete
pack_s_complete(t, i) == s_number_word(t, i, w_complete)
\* s(\d{1,2})\s*full
pack_s_full(t, i) == s_number_word(t, i, w_full)
\* s(\d{1,2})\s*complete\s*pack
pack_s_complete_pack(t, i) ==
    IF s_number_word(t, i, w_complete) = NoMatch THEN NoMatch
    ELSE LET n == RunLen(t, i + 1, IsDigit)
             p == spaces(t, i + 1 + n) + 8
         IN IF lit(t, spaces(t, p), w_pack)
            THEN <<int(t, i + 1, n)>> ELSE NoMatch

\* s(\d{1,2})e(\d{1,3})\s*-\s*  : the position after it and its two groups,
\* or NoMatch; each run of digits is followed by no digit
range_head(t, i) ==
    IF ~lit(t, i, <<"s">>) THEN NoMatch
    ELSE LET n == RunLen(t, i + 1, IsDigit)
             p == i + 1 + n
         IN IF n = 0 \/ n > 2 \/ ~lit(t, p, <<"e">>) THEN NoMatch
            ELSE LET m == RunLen(t, p + 1, IsDigit)
                     q == spaces(t, p + 1 + m)
                 IN IF m = 0 \/ m > 3 \/ ~lit(t, q, <<"-">>) THEN NoMatch
                    ELSE <<spaces(t, q + 1), int(t, i + 1, n), int(t, p + 1, m)>>

\* s(\d{1,2})e(\d{1,3})\s*-\s*e(\d{1,3})
range_e_e(t, i) ==
    LET h == range_head(t, i)
    IN IF h = NoMatch THEN NoMatch
       ELSE IF ~lit(t, h[1], <<"e">>) \/ UpTo(t, h[1] + 1, 3) = 0 THEN NoMatch
       ELSE <<h[2], h[3], int(t, h[1] + 1, UpTo(t, h[1] + 1, 3))>>

\* s(\d{1,2})e(\d{1,3})\s*-\s*s\d{1,2}e(\d{1,3})
range_se_se(t, i) ==
    LET h == range_head(t, i)
    IN IF h = NoMatch THEN NoMatch
       ELSE IF ~lit(t, h[1], <<"s">>) THEN NoMatch
       ELSE LET n == RunLen(t, h[1] + 1, IsDigit)
                p == h[1] + 1 + n
            IN IF n = 0 \/ n > 2 \/ ~lit(t, p, <<"e">>)
                  \/ UpTo(t, p + 1, 3) = 0
               THEN NoMatch
               ELSE <<h[2], h[3], int(t, p + 1, UpTo(t, p + 1, 3))>>

\* episodes?\s*(\d+)[\s\-to]+(\d+): two groups only
range_episodes(t, i) ==
    IF ~lit(t, i, w_episode) THEN NoMatch
    ELSE LET p == spaces(t, IF lit(t, i + 7, <<"s">>) THEN i + 8 ELSE i + 7)
             n == RunLen(t, p, IsDigit)
             c == RunLen(t, p + n, IsRangeSep)
             m == RunLen(t, p + n + c, IsDigit)
         IN IF n = 0 \/ c = 0 \/ m = 0 THEN NoMatch
            ELSE <<int(t, p, n), int(t, p + n + c, m)>>

\* S(\d{1,2})E(\d{1,3})
single_s_e(t, i) ==
    IF ~lit(t, i, <<"s">>) THEN NoMatch
    ELSE LET n == RunLen(t, i + 1, IsDigit)
             p == i + 1 + n
         IN IF n = 0 \/ n > 2 \/ ~lit(t, p, <<"e">>) \/ UpTo(t, p + 1, 3) = 0
            THEN NoMatch
            ELSE <<int(t, i + 1, n), int(t, p + 1, UpTo(t, p + 1, 3))>>

\* (variant: the number before the x is the episode)
single_n_x_m_swapped(t, i) ==
    LET n == RunLen(t, i, IsDigit)
    IN IF n = 0 \/ n > 2 \/ ~lit(t, i + n, <<"x">>)
          \/ UpTo(t, i + n + 1, 3) = 0
       THEN NoMatch
       ELSE <<int(t, i + n + 1, UpTo(t, i + n + 1, 3)), int(t, i, n)>>

\* (\d{1,2})x(\d{1,3})
single_n_x_m(t, i) ==
    LET n == RunLen(t, i, IsDigit)
    IN IF n = 0 \/ n > 2 \/ ~lit(t, i + n, <<"x">>)
          \/ UpTo(t, i + n + 1, 3) = 0
       THEN NoMatch
       ELSE <<int(t, i, n), int(t, i + n + 1, UpTo(t, i + n + 1, 3))>>

\* Episodio\s*(\d+) at position q: the number, or NoMatch
episodio_at(t, q) ==
    IF ~lit(t, q, w_episodio) THEN NoMatch
    ELSE LET p == spaces(t, q + 8)
             m == RunLen(t, p, IsDigit)
         IN IF m = 0 THEN NoMatch ELSE <<int(t, p, m)>>

\* Stagion[ei]\s*(\d+).*?Episodio\s*(\d+): the first Episodio after the
\* season number
single_stagione(t, i) ==
    IF ~lit(t, i, w_stagion) \/ ~(lit(t, i + 7, <<"e">>) \/ lit(t, i + 7, <<"i">>))
    THEN NoMatch
    ELSE LET p == spaces(t, i + 8)
             n == RunLen(t, p, IsDigit)
             later == {q \in (p + n)..Len(t) : episodio_at(t, q) /= NoMatch}
         IN IF n = 0 \/ later = {} THEN NoMatch
            ELSE <<int(t, p, n),
                   episodio_at(t, CHOOSE q \in later : \A r \in later : q <= r)[1]>>

\* the first of a list of search results that is a match
FirstMatch(ms) ==
    LET hits == {k \in 1..Len(ms) : ms[k] /= NoMatch}
    IN IF hits = {} THEN NoMatch
       ELSE ms[CHOOSE k \in hits : \A j \in hits : k <= j]

\* list(range(a, b + 1))
range_list(a, b) == [k \in 1..(IF b < a THEN 0 ELSE b - a + 1) |-> a + k - 1]

Unparsable == [kind |-> "none", season |-> NoNumber, episode |-> NoNumber,
               episode_range |-> <<>>]

\* EpisodeParser.extract_episode_info: None ("none"), a season pack, a range,
\* a single episode, or the exception it raises
extract_episode_info(t) ==
    LET pk == FirstMatch(<<search(t, pack_complete_season),
                           search(t, pack_full_season),
                           search(t, pack_season_pack),
                           search(t, pack_s_complete),
                           search(t, pack_s_full),
                           search(t, pack_s_complete_pack)>>)
        rg == FirstMatch(<<search(t, range_e_e), search(t, range_se_se),
                           search(t, range_episodes)>>)
        sg == FirstMatch(<<search(t, single_s_e), search(t, single_n_x_m),
                           search(t, single_stagione)>>)
    IN IF \A k \in 1..Len(t) : IsSpace(t[k]) THEN Unparsable
       ELSE IF pk /= NoMatch
       THEN [Unparsable EXCEPT !.kind = "pack", !.season = pk[1]]
       ELSE IF rg /= NoMatch
       THEN IF Len(rg) < 3
            THEN [Unparsable EXCEPT !.kind = "raise"]          \* group(3)
            ELSE [Unparsable EXCEPT !.kind = "range", !.season = rg[1],
                                    !.episode_range = range_list(rg[2], rg[3])]
       ELSE IF sg /= NoMatch
       THEN [Unparsable EXCEPT !.kind = "single", !.season = sg[1],
                               !.episode = sg[2]]
       ELSE Unparsable

\* ------------------------------- release file names (core.py:316-365)
w_s == <<"s">>
w_dot == <<".">>
w_underscore == <<"_">>

\* S(\d{1,2})\.?E(\d{1,2})
name_s_e(t, i) ==
    IF ~lit(t, i, w_s) THEN NoMatch
    ELSE LET n == RunLen(t, i + 1, IsDigit)
             p == IF lit(t, i + 1 + n, w_dot) THEN i + 2 + n ELSE i + 1 + n
         IN IF n = 0 \/ n > 2 \/ ~lit(t, p, <<"e">>) \/ UpTo(t, p + 1, 2) = 0
            THEN NoMatch
            ELSE <<int(t, i + 1, n), int(t, p + 1, UpTo(t, p + 1, 2))>>

\* (\d{1,2})x(\d{1,2})
name_n_x_m(t, i) ==
    LET n == RunLen(t, i, IsDigit)
    IN IF n = 0 \/ n > 2 \/ ~lit(t, i + n, <<"x">>)
          \/ UpTo(t, i + n + 1, 2) = 0
       THEN NoMatch
       ELSE <<int(t, i, n), int(t, i + n + 1, UpTo(t, i + n + 1, 2))>>

\* Season<sep>(\d{1,2})<sep>Episode<sep>(\d{1,2})
name_season_episode(t, i, sep) ==
    IF ~lit(t, i, w_season \o sep) THEN NoMatch
    ELSE LET n == RunLen(t, i + 7, IsDigit)
             p == i + 7 + n
         IN IF n = 0 \/ n > 2 \/ ~lit(t, p, sep \o w_episode \o sep)
               \/ UpTo(t, p + 9, 2) = 0
            THEN NoMatch
            ELSE <<int(t, i + 7, n), int(t, p + 9, UpTo(t, p + 9, 2))>>

\* Season\.(\d{1,2})\.Episode\.(\d{1,2})
name_season_dot(t, i) == name_season_episode(t, i, w_dot)
\* Season_(\d{1,2})_Episode_(\d{1,2})
name_season_underscore(t, i) == name_season_episode(t, i, w_underscore)

\* (\d{1,2})(\d{2}): three digits or more; the first group takes two of them
\* when four are there
name_bare_digits(t, i) ==
    LET n == RunLen(t, i, IsDigit)
        k == IF n >= 4 THEN 2 ELSE 1
    IN IF n < 3 THEN NoMatch ELSE <<int(t, i, k), int(t, i + k, 2)>>

\* (Season|Stagione|S)(\d{1,2})
name_pack_marker(t, i) ==
    LET ws == <<w_season, w_stagione, w_s>>
        hits == {k \in 1..3 : lit(t, i, ws[k]) /\ UpTo(t, i + Len(ws[k]), 2) > 0}
    IN IF hits = {} THEN NoMatch
       ELSE LET k == CHOOSE h \in hits : \A j \in hits : h <= j
            IN <<k, int(t, i + Len(ws[k]), UpTo(t, i + Len(ws[k]), 2))>>

\* MIRCrewSmartIndexer._parse_episode_from_filename: (season, episode)
parse_episode_from_filename(t) ==
    LET m == FirstMatch(<<search(t, name_s_e), search(t, name_n_x_m),
                          search(t, name_season_dot),
                          search(t, name_season_underscore),
                          search(t, name_bare_digits)>>)
        pk == search(t, name_pack_marker)
    IN IF t = <<>> THEN <<NoNumber, NoNumber>>
       ELSE IF m /= NoMatch THEN <<m[1], m[2]>>
       ELSE IF pk /= NoMatch THEN <<pk[2], NoNumber>>
       ELSE <<NoNumber, NoNumber>>

\* ------------------------------------------------- the texts of the checks
\* the words of thread titles and context blocks; each with the notation it
\* is an instance of and the numbers it stands for
Lexicon == <<
    [chars |-> <<"c", "o", "m", "p", "l", "e", "t", "e", " ", "s", "e", "a", "s", "o", "n", " ", "1">>,
     form |-> "pack", season |-> 1, first |-> NoNumber, last |-> NoNumber],
    [chars |-> <<"F", "u", "l", "l", " ", "S", "e", "a", "s", "o", "n", " ", "0", "2">>,
     form |-> "pack", season |-> 2, first |-> NoNumber, last |-> NoNumber],
    [chars |-> <<"s", "e", "a", "s", "o", "n", " ", "1", " ", "p", "a", "c", "k">>,
     form |-> "pack", season |-> 1, first |-> NoNumber, last |-> NoNumber],
    [chars |-> <<"S", "0", "3", " ", "c", "o", "m", "p", "l", "e", "t", "e">>,
     form |-> "pack", season |-> 3, first |-> NoNumber, last |-> NoNumber],
    [chars |-> <<"s", "0", "3", " ", "f", "u", "l", "l">>,
     form |-> "pack", season |-> 3, first |-> NoNumber, last |-> NoNumber],
    [chars |-> <<"S", "0", "3", " ", "C", "o", "m", "p", "l", "e", "t", "e", " ", "P", "a", "c", "k">>,
     form |-> "pack", season |-> 3, first |-> NoNumber, last |-> NoNumber],
    [chars |-> <<"S", "0", "1", "E", "0", "2", "-", "E", "0", "5">>,
     form |-> "range", season |-> 1, first |-> 2, last |-> 5],
    [chars |-> <<"s", "0", "1", "e", "0", "2", " ", "-", " ", "s", "0", "1", "e", "0", "5">>,
     form |-> "range", season |-> 1, first |-> 2, last |-> 5],
    [chars |-> <<"e", "p", "i", "s", "o", "d", "e", "s", " ", "2", "-", "5">>,
     form |-> "range", season |-> NoNumber, first |-> 2, last |-> 5],
    [chars |-> <<"S", "0", "1", "E", "0", "5", "-", "E", "0", "2">>,
     form |-> "range", season |-> 1, first |-> 5, last |-> 2],
    [chars |-> <<"S", "0", "1", "E", "0", "1">>,
     form |-> "single", season |-> 1, first |-> 1, last |-> 1],
    [chars |-> <<"1", "x", "0", "2">>,
     form |-> "single", season |-> 1, first |-> 2, last |-> 2],
    [chars |-> <<"S", "t", "a", "g", "i", "o", "n", "e", " ", "2", " ", "E", "p", "i", "s", "o", "d", "i", "o", " ", "3">>,
     form |-> "single", season |-> 2, first |-> 3, last |-> 3],
    [chars |-> <<"S", "1", "2", "E", "1", "0", "0">>,
     form |-> "single", season |-> 12, first |-> 100, last |-> 100],
    [chars |-> <<"s", "h", "o", "w">>,
     form |-> "filler", season |-> NoNumber, first |-> NoNumber, last |-> NoNumber],
    [chars |-> <<"7", "2", "0", "p">>,
     form |-> "filler", season |-> NoNumber, first |-> NoNumber, last |-> NoNumber],
    [chars |-> <<" ">>,
     form |-> "filler", season |-> NoNumber, first |-> NoNumber, last |-> NoNumber]>>

\* the words of release file names: an episode notation ("single"), a bare
\* run of digits read as season and episode ("bare"), a season marker, or
\* digits of another meaning (resolution, year, codec)
FileLexicon == <<
    [chars |-> <<"S", "h", "o", "w">>,
     form |-> "filler", season |-> NoNumber, first |-> NoNumber, last |-> NoNumber],
    [chars |-> <<"S", "0", "1", "E", "0", "2">>,
     form |-> "single", season |-> 1, first |-> 2, last |-> 2],
    [chars |-> <<"1", "x", "0", "3">>,
     form |-> "single", season |-> 1, first |-> 3, last |-> 3],
    [chars |-> <<"S", "e", "a", "s", "o", "n", ".", "2", ".", "E", "p", "i", "s", "o", "d", "e", ".", "4">>,
     form |-> "single", season |-> 2, first |-> 4, last |-> 4],
    [chars |-> <<"0", "1", "0", "5">>,
     form |-> "bare", season |-> 1, first |-> 5, last |-> 5],
    [chars |-> <<"2", "0", "5">>,
     form |-> "bare", season |-> 2, first |-> 5, last |-> 5],
    [chars |-> <<"S", "0", "1">>,
     form |-> "marker", season |-> 1, first |-> NoNumber, last |-> NoNumber],
    [chars |-> <<"S", "e", "a", "s", "o", "n", "2">>,
     form |-> "marker", season |-> 2, first |-> NoNumber, last |-> NoNumber],
    [chars |-> <<"S", "t", "a", "g", "i", "o", "n", "e", "3">>,
     form |-> "marker", season |-> 3, first |-> NoNumber, last |-> NoNumber],
    [chars |-> <<"1", "0", "8", "0", "p">>,
     form |-> "digits", season |-> NoNumber, first |-> NoNumber, last |-> NoNumber],
    [chars |-> <<"2", "0", "1", "9">>,
     form |-> "digits", season |-> NoNumber, first |-> NoNumber, last |-> NoNumber],
    [chars |-> <<"x", "2", "6", "4">>,
     form |-> "digits", season |-> NoNumber, first |-> NoNumber, last |-> NoNumber]>>

\* the words ws of a lexicon, joined by sep
RECURSIVE Join(_, _, _)
Join(lexicon, ws, sep) ==
    IF ws = <<>> THEN <<>>
    ELSE IF Len(ws) = 1 THEN lexicon[ws[1]].chars
    ELSE lexicon[ws[1]].chars \o sep \o Join(lexicon, Tail(ws), sep)

\* the lists of at most k words out of n
WordLists(n, k) == UNION {[1..m -> 1..n] : m \in 0..k}

\* ------------------------------------------------------------ AuthManager
\* (variant: the cookie file is never read back)
load_cookies_never(b) == 0

\* load_cookies + __init__: a missing file gives None, an unreadable one raises
\* and gives None, an empty jar is falsy: all leave the session without cookies
load_cookies(b) == IF b.state = "ok" THEN b.jar ELSE 0

\* what one login call has done so far: probes and form fetches issued,
\* save_cookies calls, failed attempts, whether its probe passed (already),
\* whether the answer to a submit passed is_logged_in (verified); of the
\* attempt under way: the credential submits, the wait_time computed for it
\* and the time slept for it; and, for a call made by the renewal loop, what
\* the probe of that cycle reported
NoStats == [probes |-> 0, gets |-> 0, posts |-> 0, saves |-> 0, fails |-> 0,
            already |-> FALSE, verified |-> FALSE, wait_time |-> 0,
            slept |-> 0, cycle_probe |-> "none"]

\* the attempt loop of login(): form fetch, credential submit, cookie save
AttemptPcs == {"l_get", "l_post", "l_save", "l_dump"}

NoProbe == [resp |-> [kind |-> "exc", status |-> 0, page |-> {}],
            out |-> FALSE, done |-> FALSE]

\* what the tracker reported, before any call of it
NoTracker == [kind |-> "none", series_monitored |-> TRUE, raised |-> FALSE,
              missing |-> {}]

\* nothing was given to a parser or expanded
\* no document sent yet
NoReply == [kind |-> "none", items |-> <<>>]

\* no wait computed yet
NoBackoff == [wait_time |-> 0, actual_wait |-> 0]

\* no thread fetch under way
NoClick == [page |-> "none", requests |-> 0, delay |-> 0, fetch |-> "none"]

\* the users of the like API
Users == {"u1", "u2"}

\* the like requests that can be under way at once
Requests == {"a", "b"}

\* the tables and the cache entries a like request works on, all empty
NoTables == [likes |-> [u \in Users |-> <<>>], history |-> <<>>,
             marks |-> {}, count |-> [present |-> FALSE, data |-> 0]]

\* no like request under way. Of a request: where it is (at), its user and
\* action, the row existing_like (0 = None), new_count, the status of its
\* response; and, to compare with, the tables and entries as it found them
\* (before) and what has happened beside it since: "no" (nothing),
\* "expiry" (a cache entry expired) or "request" (another request ran)
NoFrame == [at |-> "idle", user |-> "u1", action |-> "like", existing |-> 0,
            new_count |-> 0, status |-> 0, before |-> NoTables,
            beside |-> "no"]

\* empty tables, an empty cache, no request
NoLikes ==
    /\ db_likes = [u \in Users |-> <<>>]
    /\ db_history = <<>>
    /\ db_like_count = [exists |-> FALSE, like_count |-> 0]
    /\ cache_count = [present |-> FALSE, data |-> 0]
    /\ cache_marks = {}
    /\ frames = [r \in Requests |-> NoFrame]
    /\ begun = 0

\* nothing of the above under way
NoExtras ==
    /\ reply = NoReply
    /\ backoff = NoBackoff
    /\ click = NoClick
    /\ in_season = "none"
    /\ NoLikes

NoParse ==
    /\ words = <<>>
    /\ text = <<>>
    /\ info = Unparsable
    /\ parsed = <<NoNumber, NoNumber>>
    /\ links = <<>>
    /\ expanded = <<>>

\* no search is under way
NoSearch ==
    /\ season = NoNumber
    /\ threads = <<>>
    /\ idx = 0
    /\ all_episodes = <<>>
    /\ yielded = <<>>
    /\ fetched = <<>>
    /\ thread_failed = FALSE
    /\ searched = "no"
    /\ authed = FALSE
    /\ tracker = NoTracker
    /\ tracker_calls = 0
    /\ result = <<>>

Init ==
    /\ username \in CredVals
    /\ password \in CredVals
    /\ retries \in 0..MaxRetries
    /\ blob \in {NoFile, PartialFile}
    /\ jar = load_cookies(blob)
    /\ pc = [t \in Threads |-> IF t = "main" THEN "startup" ELSE "off"]
    /\ attempt = [t \in Threads |-> 0]
    /\ ret = [t \in Threads |-> "none"]
    /\ consecutive_failures = 0
    /\ stats = [t \in Threads |-> NoStats]
    /\ streak = 0
    /\ login_failures = 0
    /\ probe = NoProbe
    /\ boot = "cold"
    /\ prior = NoFile
    /\ sonarr_api = FALSE
    /\ NoSearch
    /\ NoParse
    /\ NoExtras
    /\ api_jar = load_cookies(blob)

\* the call self.login() / self.auth.login() by thread t
login_call(t, cycle) ==
    /\ pc' = [pc EXCEPT ![t] = "l_entry"]
    /\ attempt' = [attempt EXCEPT ![t] = 0]
    /\ ret' = [ret EXCEPT ![t] = "none"]
    /\ stats' = [stats EXCEPT ![t] = [NoStats EXCEPT !.cycle_probe = cycle]]

\* the caller has read the result: the frame of the call is gone
login_return(t) ==
    /\ attempt' = [attempt EXCEPT ![t] = 0]
    /\ ret' = [ret EXCEPT ![t] = "none"]
    /\ stats' = [stats EXCEPT ![t] = NoStats]

\* (variant: the loop test is off by one, attempt == retries)
next_attempt_off_by_one(t, st) ==
    IF attempt[t] = retries
    THEN /\ pc' = [pc EXCEPT ![t] = "l_done"]
         /\ ret' = [ret EXCEPT ![t] = "False"]
         /\ attempt' = attempt
         /\ stats' = [stats EXCEPT ![t] = st]
    ELSE /\ pc' = [pc EXCEPT ![t] = "l_get"]
         /\ attempt' = [attempt EXCEPT ![t] = @ + 1]
         /\ ret' = ret
         /\ stats' = [stats EXCEPT ![t] =
                        [st EXCEPT !.wait_time = wait_time(attempt[t] + 1),
                                   !.slept = 0, !.posts = 0]]

\* the end of an attempt that did not log in: return False after the last
\* one, else go round the loop (lines 138-142: the wait for the next attempt
\* is computed and logged; there is no time.sleep)
next_attempt(t, st) ==
    IF attempt[t] = retries - 1
    THEN /\ pc' = [pc EXCEPT ![t] = "l_done"]
         /\ ret' = [ret EXCEPT ![t] = "False"]
         /\ attempt' = attempt
         /\ stats' = [stats EXCEPT ![t] = st]
    ELSE /\ pc' = [pc EXCEPT ![t] = "l_get"]
         /\ attempt' = [attempt EXCEPT ![t] = @ + 1]
         /\ ret' = ret
         /\ stats' = [stats EXCEPT ![t] =
                        [st EXCEPT !.wait_time = wait_time(attempt[t] + 1),
                                   !.slept = 0, !.posts = 0]]

\* line 100: not self.username or not self.password (None and '' are falsy)
credentials_missing_none_only == username = "none" \/ password = "none"

credentials_missing == username /= "set" \/ password /= "set"

\* login(), lines 100-102: the credential check
login_entry(t) ==
    /\ pc[t] = "l_entry"
    /\ IF credentials_missing
       THEN /\ pc' = [pc EXCEPT ![t] = "l_done"]
            /\ ret' = [ret EXCEPT ![t] = "False"]
       ELSE /\ pc' = [pc EXCEPT ![t] = "l_probe"]
            /\ ret' = ret
    /\ UNCHANGED <<svars, api_jar, dvars, username, password, retries, jar, blob, attempt,
                   consecutive_failures, stats, streak, login_failures, probe>>

\* (variant: the result of the probe is not used)
login_probe_ignores_result(t) ==
    /\ pc[t] = "l_probe"
    /\ \E out \in ProbeOutcomes[username], j \in JarVals :
        /\ jar' = j
        /\ stats' = [stats EXCEPT ![t].probes = @ + 1, ![t].already = out]
        /\ IF retries > 0
           THEN /\ pc' = [pc EXCEPT ![t] = "l_get"]
                /\ ret' = ret
           ELSE /\ pc' = [pc EXCEPT ![t] = "l_done"]
                /\ ret' = [ret EXCEPT ![t] = "False"]
    /\ UNCHANGED <<svars, api_jar, dvars, username, password, retries, blob, attempt,
                   consecutive_failures, streak, login_failures, probe>>

\* login(), line 104: is_already_logged_in(); when it fails the loop starts
login_probe(t) ==
    /\ pc[t] = "l_probe"
    /\ \E out \in ProbeOutcomes[username], j \in JarVals :
        /\ jar' = j
        /\ stats' = [stats EXCEPT ![t].probes = @ + 1, ![t].already = out]
        /\ IF out
           THEN /\ pc' = [pc EXCEPT ![t] = "l_sid"]
                /\ ret' = ret
           ELSE IF retries > 0
           THEN /\ pc' = [pc EXCEPT ![t] = "l_get"]
                /\ ret' = ret
           ELSE /\ pc' = [pc EXCEPT ![t] = "l_done"]       \* line 235
                /\ ret' = [ret EXCEPT ![t] = "False"]
    /\ UNCHANGED <<svars, api_jar, dvars, username, password, retries, blob, attempt,
                   consecutive_failures, streak, login_failures, probe>>

\* login(), lines 105-109: the sid cookie, or True
login_sid(t) ==
    /\ pc[t] = "l_sid"
    /\ pc' = [pc EXCEPT ![t] = "l_done"]
    /\ ret' = [ret EXCEPT ![t] = IF jar /= 0 THEN "sid" ELSE "True"]
    /\ UNCHANGED <<svars, api_jar, dvars, username, password, retries, jar, blob, attempt,
                   consecutive_failures, stats, streak, login_failures, probe>>

\* login(), lines 144-163: fetch the login form
login_get(t) ==
    /\ pc[t] = "l_get"
    /\ \E o \in GetOutcomes \cup {"error"}, j \in JarVals :
        /\ jar' = j
        /\ IF o = "form"
           THEN /\ pc' = [pc EXCEPT ![t] = "l_post"]
                /\ stats' = [stats EXCEPT ![t].gets = @ + 1]
                /\ UNCHANGED <<attempt, ret>>
           ELSE next_attempt(t, [stats[t] EXCEPT !.gets = @ + 1,
                                                 !.fails = @ + 1])
    /\ UNCHANGED <<svars, api_jar, dvars, username, password, retries, blob,
                   consecutive_failures, streak, login_failures, probe>>

\* (variant: save_cookies is called before the answer is checked)
login_post_saves_unverified(t) ==
    /\ pc[t] = "l_post"
    /\ \E o \in PostOutcomes[username] \cup {"error"}, j \in JarVals :
        /\ jar' = j
        /\ IF o = "accepted"
           THEN /\ pc' = [pc EXCEPT ![t] = "l_save"]
                /\ ret' = [ret EXCEPT ![t] = IF j /= 0 THEN "sid" ELSE "True"]
                /\ stats' = [stats EXCEPT ![t].posts = @ + 1,
                                          ![t].verified = TRUE]
                /\ UNCHANGED attempt
           ELSE IF o = "rejected"
           THEN /\ pc' = [pc EXCEPT ![t] = "l_save"]
                /\ ret' = [ret EXCEPT ![t] = "False"]
                /\ stats' = [stats EXCEPT ![t].posts = @ + 1,
                                          ![t].fails = @ + 1]
                /\ UNCHANGED attempt
           ELSE next_attempt(t, [stats[t] EXCEPT !.posts = @ + 1,
                                                 !.fails = @ + 1])
    /\ UNCHANGED <<svars, api_jar, dvars, username, password, retries, blob,
                   consecutive_failures, streak, login_failures, probe>>

\* login(), lines 165-227: submit the credentials and check the answer
login_post(t) ==
    /\ pc[t] = "l_post"
    /\ \E o \in PostOutcomes[username] \cup {"error"}, j \in JarVals :
        /\ jar' = j
        /\ IF o = "accepted"
           THEN /\ pc' = [pc EXCEPT ![t] = "l_save"]
                /\ ret' = [ret EXCEPT ![t] = IF j /= 0 THEN "sid" ELSE "True"]
                /\ stats' = [stats EXCEPT ![t].posts = @ + 1,
                                          ![t].verified = TRUE]
                /\ UNCHANGED attempt
           ELSE next_attempt(t, [stats[t] EXCEPT !.posts = @ + 1,
                                                 !.fails = @ + 1])
    /\ UNCHANGED <<svars, api_jar, dvars, username, password, retries, blob,
                   consecutive_failures, streak, login_failures, probe>>

\* another thread is between open() and the end of pickle.dump
Writing(t) == \E u \in Threads \ {t} : pc[u] = "l_dump"

\* save_cookies(), line 84: open(cookie_file, 'wb') truncates the file; an
\* OSError is logged and login still returns its result
save_open(t) ==
    /\ pc[t] = "l_save"
    /\ stats' = [stats EXCEPT ![t].saves = @ + 1]
    /\ \/ /\ blob' = PartialFile
          /\ prior' = IF Writing(t) THEN prior ELSE blob
          /\ pc' = [pc EXCEPT ![t] = "l_dump"]
       \/ /\ blob' = blob
          /\ prior' = prior
          /\ pc' = [pc EXCEPT ![t] = "l_done"]
    /\ UNCHANGED <<svars, api_jar, boot, username, password, retries, jar, attempt, ret,
                   consecutive_failures, streak, login_failures, probe>>

\* (variant: the return after save_cookies is missing, the loop goes on)
save_dump_no_return(t) ==
    /\ pc[t] = "l_dump"
    /\ \/ blob' = Pickled(jar)
       \/ blob' = blob
    /\ prior' = IF Writing(t) THEN prior ELSE NoFile
    /\ next_attempt(t, stats[t])
    /\ UNCHANGED <<svars, api_jar, boot, username, password, retries, jar,
                   consecutive_failures, streak, login_failures, probe>>

\* save_cookies(), line 85: pickle.dump(self.session.cookies, f) and close
save_dump(t) ==
    /\ pc[t] = "l_dump"
    /\ \/ blob' = Pickled(jar)
       \/ blob' = blob
    /\ prior' = IF Writing(t) THEN prior ELSE NoFile
    /\ pc' = [pc EXCEPT ![t] = "l_done"]
    /\ UNCHANGED <<svars, api_jar, boot, username, password, retries, jar, attempt, ret,
                   consecutive_failures, stats, streak, login_failures, probe>>

login_step(t) ==
    \/ login_entry(t)
    \/ login_probe(t)
    \/ login_sid(t)
    \/ login_get(t)
    \/ login_post(t)
    \/ save_open(t)
    \/ save_dump(t)

\* ------------------------------------------------------- app.py: startup
\* app.py:34: the blocking initial login
main_startup ==
    /\ pc["main"] = "startup"
    /\ login_call("main", "none")
    /\ prior' = NoFile
    /\ UNCHANGED <<svars, api_jar, boot, username, password, retries, jar, blob,
                   consecutive_failures, streak, login_failures, probe>>

\* app.py:34-40: exit(1) on a falsy result, else start the renewal thread and
\* serve requests
main_after_login ==
    /\ pc["main"] = "l_done"
    /\ IF ret["main"] = "False"
       THEN pc' = [t \in Threads |-> "exited"]
       ELSE pc' = [t \in Threads |->
                     CASE t = "main" -> "serving"
                       [] t = "bg" -> "b_probe"
                       [] OTHER -> "r_idle"]
    /\ login_return("main")
    /\ boot' = "up"
    /\ UNCHANGED <<svars, api_jar, prior, username, password, retries, jar, blob,
                   consecutive_failures, streak, login_failures, probe>>

\* ------------------------------------------- AuthManager._proactive_auth_loop
\* line 46: the probe of a cycle; login() is called when it fails
bg_probe ==
    /\ pc["bg"] = "b_probe"
    /\ \E out \in ProbeOutcomes[username], j \in JarVals :
        /\ jar' = j
        /\ IF out
           THEN /\ pc' = [pc EXCEPT !["bg"] = "b_sleep"]
                /\ streak' = 0
                /\ UNCHANGED <<attempt, ret, stats>>
           ELSE /\ login_call("bg", "False")
                /\ streak' = streak
    /\ UNCHANGED <<svars, api_jar, dvars, username, password, retries, blob,
                   consecutive_failures, login_failures, probe>>

\* (variant: the threshold test is > instead of >=)
bg_after_login_gt ==
    /\ pc["bg"] = "l_done"
    /\ IF ret["bg"] /= "False"
       THEN /\ consecutive_failures' = 0
            /\ streak' = 0
            /\ login_failures' = 0
            /\ pc' = [pc EXCEPT !["bg"] = "b_sleep"]
       ELSE /\ consecutive_failures' = consecutive_failures + 1
            /\ streak' = streak + 1
            /\ login_failures' = login_failures + 1
            /\ pc' = [pc EXCEPT !["bg"] =
                        IF consecutive_failures + 1 > max_consecutive_failures
                        THEN "b_cool" ELSE "b_sleep"]
    /\ login_return("bg")
    /\ UNCHANGED <<svars, api_jar, dvars, username, password, retries, jar, blob, probe>>

\* lines 48-59: the result of login()
bg_after_login ==
    /\ pc["bg"] = "l_done"
    /\ IF ret["bg"] /= "False"
       THEN /\ consecutive_failures' = 0
            /\ streak' = 0
            /\ login_failures' = 0
            /\ pc' = [pc EXCEPT !["bg"] = "b_sleep"]
       ELSE /\ consecutive_failures' = consecutive_failures + 1
            /\ streak' = streak + 1
            /\ login_failures' = login_failures + 1
            /\ pc' = [pc EXCEPT !["bg"] =
                        IF consecutive_failures + 1 >= max_consecutive_failures
                        THEN "b_cool" ELSE "b_sleep"]
    /\ login_return("bg")
    /\ UNCHANGED <<svars, api_jar, dvars, username, password, retries, jar, blob, probe>>

\* lines 57-59: time.sleep(1800), reset, continue
bg_cool_down ==
    /\ pc["bg"] = "b_cool"
    /\ consecutive_failures' = 0
    /\ streak' = 0
    /\ login_failures' = 0
    /\ pc' = [pc EXCEPT !["bg"] = "b_probe"]
    /\ UNCHANGED <<svars, api_jar, dvars, username, password, retries, jar, blob, attempt, ret,
                   stats, probe>>

\* lines 63-64: time.sleep(random.randint(1200, 3600))
bg_sleep ==
    /\ pc["bg"] = "b_sleep"
    /\ pc' = [pc EXCEPT !["bg"] = "b_probe"]
    /\ UNCHANGED <<svars, api_jar, dvars, username, password, retries, jar, blob, attempt, ret,
                   consecutive_failures, stats, streak, login_failures, probe>>

\* an exception raised by a statement of the cycle (lines 46-64). The probe
\* and login() catch their own, so none is raised in normal operation; the
\* except clause of the loop is there for whatever else goes wrong
bg_raise ==
    /\ pc["bg"] \in {"b_probe", "b_sleep"}
    /\ pc' = [pc EXCEPT !["bg"] = "b_raise"]
    /\ UNCHANGED <<svars, api_jar, dvars, username, password, retries, jar, blob, attempt,
                   ret, consecutive_failures, stats, streak, login_failures,
                   probe>>

\* (variant: no except clause, the exception ends the thread)
bg_except_ends_thread ==
    /\ pc["bg"] = "b_raise"
    /\ pc' = [pc EXCEPT !["bg"] = "dead"]
    /\ UNCHANGED <<svars, api_jar, dvars, username, password, retries, jar, blob, attempt,
                   ret, consecutive_failures, stats, streak, login_failures,
                   probe>>

\* lines 66-68: the exception is logged; time.sleep(300)
bg_except ==
    /\ pc["bg"] = "b_raise"
    /\ pc' = [pc EXCEPT !["bg"] = "b_err"]
    /\ UNCHANGED <<svars, api_jar, dvars, username, password, retries, jar, blob, attempt,
                   ret, consecutive_failures, stats, streak, login_failures,
                   probe>>

bg_err_sleep ==
    /\ pc["bg"] = "b_err"
    /\ pc' = [pc EXCEPT !["bg"] = "b_probe"]
    /\ UNCHANGED <<svars, api_jar, dvars, username, password, retries, jar, blob, attempt, ret,
                   consecutive_failures, stats, streak, login_failures, probe>>

\* ------------------------------------------------------- request serving
\* app.py:64: /health probes the shared session
req_health ==
    /\ pc["req"] = "r_idle"
    /\ \E out \in ProbeOutcomes[username], j \in JarVals : jar' = j
    /\ UNCHANGED <<svars, api_jar, dvars, username, password, retries, blob, pc, attempt, ret,
                   consecutive_failures, stats, streak, login_failures, probe>>

\* core.py:88: _find_series_threads starts with self.auth.login()
req_search ==
    /\ pc["req"] = "r_idle"
    /\ login_call("req", "none")
    /\ UNCHANGED <<svars, api_jar, dvars, username, password, retries, jar, blob,
                   consecutive_failures, streak, login_failures, probe>>

\* core.py:88-90 on the result: the rest of the search does not touch the
\* state of login (its requests change the jar as req_health does)
req_after_login ==
    /\ pc["req"] = "l_done"
    /\ pc' = [pc EXCEPT !["req"] = "r_idle"]
    /\ login_return("req")
    /\ UNCHANGED <<svars, api_jar, dvars, username, password, retries, jar, blob,
                   consecutive_failures, streak, login_failures, probe>>

\* ------------------------------------------------- SonarrClient (sonarr.py)
Seasons == 1..MaxSeason
Episodes == 1..MaxEpisode

\* one episode of the series as /api/v3/episode lists it: not listed, or
\* listed with its monitored and hasFile flags
EpisodeFlags == {"absent", "wanted", "have", "unmonitored"}

\* what the tracker answers to one call of get_missing_episodes: "down" (the
\* request raises), "badstatus" (the series request is not 200), "notfound"
\* (no series of that title), "episodes_badstatus", or "listed" with the
\* monitored flag of the series and the flags of its episodes
TrackerResponses ==
    [kind : {"down", "badstatus", "notfound", "episodes_badstatus"},
     series_monitored : {TRUE},
     episodes : {[p \in Seasons \X Episodes |-> "absent"]}]
    \cup [kind : {"listed"}, series_monitored : BOOLEAN,
          episodes : [Seasons \X Episodes -> EpisodeFlags]]

\* (variant: a request error is not caught and reaches the caller)
get_missing_episodes_propagates(resp, seas) ==
    [kind |-> resp.kind, series_monitored |-> resp.series_monitored,
     raised |-> resp.kind = "down",
     missing |-> IF resp.kind /= "listed" THEN {}
                 ELSE {<<seas, e>> : e \in {x \in Episodes :
                          resp.episodes[<<seas, x>>] = "wanted"}}]

\* SonarrClient.get_missing_episodes: every failure is caught and gives [];
\* an episode counts when seasonNumber == season, monitored and not hasFile
get_missing_episodes(resp, seas) ==
    [kind |-> resp.kind, series_monitored |-> resp.series_monitored,
     raised |-> FALSE,
     missing |-> IF resp.kind /= "listed" THEN {}
                 ELSE {<<seas, e>> : e \in {x \in Episodes :
                          resp.episodes[<<seas, x>>] = "wanted"}}]

\* what one call can come to, over every answer of the tracker
TrackerOutcomes == [seas \in Seasons |->
                      {get_missing_episodes(r, seas) : r \in TrackerResponses}]

\* ------------------------------------- MIRCrewSmartIndexer (core.py): search
\* the mock thread 'test123' of the test search URL
TestThread == 0

\* season and episode _parse_episode_from_filename can give for one magnet
Labels == {<<NoNumber, NoNumber>>}
          \cup {<<sn, NoNumber>> : sn \in Seasons}
          \cup (Seasons \X Episodes)

\* what the magnets of the pages of one search parse to
PageLabels == {<<NoNumber, NoNumber>>, <<1, NoNumber>>, <<1, 1>>}

Record(t, l) == [thread |-> t, season |-> l[1], episode |-> l[2]]

\* the magnets of one thread page, as records: none or one
ThreadPages(t) == {<<>>} \cup {<<Record(t, l)>> : l \in PageLabels}

\* (variant: a season pack is kept only when listed itself)
keep_exact_only(ep, missing) ==
    <<ep.season, ep.episode>> \in missing

\* lines 212-224: is one record kept, given the missing set
keep(ep, missing) ==
    IF ep.episode = NoNumber /\ ep.season /= NoNumber
    THEN \E m \in missing : m[1] = ep.season /\ m[2] /= NoNumber
    ELSE IF ep.season /= NoNumber /\ ep.episode /= NoNumber
    THEN <<ep.season, ep.episode>> \in missing
    ELSE FALSE

\* (variant: an empty missing set filters nothing)
reconcile_open(episodes, missing) ==
    IF missing /= {}
    THEN SelectSeq(episodes, LAMBDA ep : keep(ep, missing))
    ELSE episodes

\* lines 204-230: the filter of the aggregated records
reconcile(episodes, missing) ==
    IF missing /= {}
    THEN SelectSeq(episodes, LAMBDA ep : keep(ep, missing))
    ELSE <<>>

\* a search ends: the list is returned and its frame is gone
search_reset ==
    /\ season' = NoNumber
    /\ threads' = <<>>
    /\ idx' = 0
    /\ all_episodes' = <<>>
    /\ yielded' = <<>>
    /\ fetched' = <<>>
    /\ thread_failed' = FALSE
    /\ searched' = "no"
    /\ authed' = FALSE
    /\ tracker' = NoTracker
    /\ tracker_calls' = 0
    /\ result' = <<>>

\* everything of the session but the frame of login()
session_vars == <<username, password, retries, jar, blob,
                  consecutive_failures, streak, login_failures, probe, dvars,
                  api_jar, pvars>>

\* torznab.py:89-95, core.py:157-166: a search request arrives; a season that
\* is not positive raises ValueError, else _find_series_threads calls login()
\* the season parameter of a Torznab request: absent, digits, something else
SeasonArgs == {<<>>, <<"0", "1">>, <<"-", "1">>, <<"x">>}
              \cup {<<DigitChars[n + 1]>> : n \in 0..MaxSeason}

\* torznab.py:92-93: int(season) if season.isdigit() else None
season_int(arg) ==
    IF arg /= <<>> /\ \A k \in 1..Len(arg) : IsDigit(arg[k])
    THEN int(arg, 1, Len(arg)) ELSE NoNumber

\* (variant: only a negative season is rejected)
season_rejected_negative_only(sn) == sn /= NoNumber /\ sn < 0

\* core.py:160-162: the season is given and is not a positive integer
season_rejected(sn) == sn /= NoNumber /\ sn <= 0

\* the keys of the records _expand_thread_episodes builds (core.py:299-311)
RecordKeys == {"title", "thread_url", "publish_date", "size", "magnet",
               "season", "episode", "category", "seeders", "peers", "guid"}

\* torznab.py:31: the guid of a feed item, with '0' for a missing thread_id
torznab_guid(ep) ==
    [thread_id |-> IF "thread_id" \in RecordKeys THEN ep.thread ELSE 0,
     season |-> ep.season, episode |-> ep.episode]

\* torznab.py:28-33: the items of the feed, with guid and link (thread_url)
build_torznab_xml(results) ==
    [kind |-> "feed",
     items |-> [k \in 1..Len(results) |->
                  [guid |-> torznab_guid(results[k]),
                   link |-> results[k].thread]]]

\* torznab.py:14-18: the error document
torznab_error == [kind |-> "error", items |-> <<>>]

\* torznab.py:91-94 and core.py:160-166: the request is read, the season
\* checked, and the search begins with the login of _find_series_threads
search_start ==
    /\ pc["req"] = "r_idle"
    /\ \E arg \in SeasonArgs : \E sn \in {season_int(arg)} :
        /\ season' = sn
        /\ reply' = NoReply
        /\ IF season_rejected(sn)
           THEN /\ pc' = [pc EXCEPT !["req"] = "s_raised"]
                /\ UNCHANGED <<attempt, ret, stats>>
           ELSE login_call("req", "none")
    /\ UNCHANGED <<session_vars, sonarr_api, authed, threads, idx, all_episodes,
                   yielded, fetched, thread_failed, searched, tracker, tracker_calls,
                   result>>

\* core.py:88-90, 167-169: no login, no threads, the search returns []
search_after_login ==
    /\ pc["req"] = "l_done"
    /\ pc' = [pc EXCEPT !["req"] =
                 IF ret["req"] = "False" THEN "s_done" ELSE "s_find"]
    /\ authed' = (ret["req"] /= "False")
    /\ login_return("req")
    /\ UNCHANGED <<session_vars, reply, season, sonarr_api, threads, idx,
                   all_episodes, yielded, fetched, thread_failed, searched,
                   tracker, tracker_calls, result>>

\* after the loop over threads[:5], lines 186-189 and 238: the tracker is
\* asked when it is configured and a season was given, else the aggregated
\* records are returned
\* (variant: the tracker is asked whenever a season is given)
after_expansion_season_only(episodes) ==
    IF season /= NoNumber
    THEN /\ pc' = [pc EXCEPT !["req"] = "s_tracker"]
         /\ result' = result
    ELSE /\ pc' = [pc EXCEPT !["req"] = "s_done"]
         /\ result' = episodes

after_expansion(episodes) ==
    IF sonarr_api /\ season /= NoNumber
    THEN /\ pc' = [pc EXCEPT !["req"] = "s_tracker"]
         /\ result' = result
    ELSE /\ pc' = [pc EXCEPT !["req"] = "s_done"]
         /\ result' = episodes

\* (variant: a failure of the search request is not caught)
search_find_propagates ==
    /\ pc["req"] = "s_find"
    /\ \/ /\ threads' = <<TestThread>>
          /\ searched' = searched
          /\ pc' = [pc EXCEPT !["req"] = "s_expand"]
       \/ /\ searched' = "error"
          /\ threads' = <<>>
          /\ pc' = [pc EXCEPT !["req"] = "s_raised"]
       \/ /\ searched' = "ok"
          /\ \E n \in 0..MaxThreads :
              /\ threads' = [i \in 1..n |-> i]
              /\ pc' = [pc EXCEPT !["req"] =
                           IF n = 0 THEN "s_done" ELSE "s_expand"]
    /\ UNCHANGED <<session_vars, reply, attempt, ret, stats, season, sonarr_api,
                   authed, idx, all_episodes, yielded, fetched, thread_failed,
                   tracker, tracker_calls, result>>

\* core.py:92-155 and 166-169: the test URL gives the mock thread without a
\* request; else the site search request is issued: its failure (network,
\* status, parse) is caught and gives [], else the result page lists the
\* threads, in its order; no thread ends the search with []
search_find ==
    /\ pc["req"] = "s_find"
    /\ \/ /\ threads' = <<TestThread>>
          /\ searched' = searched
          /\ pc' = [pc EXCEPT !["req"] = "s_expand"]
       \/ /\ searched' = "error"
          /\ threads' = <<>>
          /\ pc' = [pc EXCEPT !["req"] = "s_done"]
       \/ /\ searched' = "ok"
          /\ \E n \in 0..MaxThreads :
              /\ threads' = [i \in 1..n |-> i]
              /\ pc' = [pc EXCEPT !["req"] =
                           IF n = 0 THEN "s_done" ELSE "s_expand"]
    /\ UNCHANGED <<session_vars, reply, attempt, ret, stats, season, sonarr_api,
                   authed, idx, all_episodes, yielded, fetched, thread_failed,
                   tracker, tracker_calls, result>>

\* (variant: every thread is gone through)
Selected_all == Len(threads)

\* threads[:5]: the number of threads the loop goes through
Selected == IF Len(threads) < MaxExpand THEN Len(threads) ELSE MaxExpand

\* (variant: the failure of a thread fetch is not caught)
search_expand_propagates ==
    /\ pc["req"] = "s_expand"
    /\ idx < Selected
    /\ idx' = idx + 1
    /\ LET t == threads[idx + 1] IN
       \/ /\ t = TestThread
          /\ all_episodes' = Append(all_episodes, Record(t, <<1, 1>>))
          /\ yielded' = Append(yielded, Record(t, <<1, 1>>))
          /\ UNCHANGED <<fetched, thread_failed>>
          /\ IF idx + 1 = Selected
             THEN after_expansion(all_episodes')
             ELSE UNCHANGED <<pc, result>>
       \/ /\ t /= TestThread
          /\ fetched' = Append(fetched, t)
          /\ \/ /\ thread_failed' = TRUE
                /\ pc' = [pc EXCEPT !["req"] = "s_raised"]
                /\ UNCHANGED <<all_episodes, yielded, result>>
             \/ \E page \in ThreadPages(t) :
                  /\ Len(all_episodes) + Len(page) <= MaxRecords
                  /\ all_episodes' = all_episodes \o page
                  /\ yielded' = yielded \o page
                  /\ thread_failed' = thread_failed
                  /\ IF idx + 1 = Selected
                     THEN after_expansion(all_episodes')
                     ELSE UNCHANGED <<pc, result>>
    /\ UNCHANGED <<session_vars, reply, attempt, ret, stats, season, sonarr_api, authed,
                   threads, searched, tracker, tracker_calls>>

\* core.py:172-184, one turn of the loop: _get_thread_data (the mock data for
\* 'test123'; else the thread page is fetched, a failure gives {}) and
\* _expand_thread_episodes, one record for each magnet
search_expand ==
    /\ pc["req"] = "s_expand"
    /\ idx < Selected
    /\ idx' = idx + 1
    /\ LET t == threads[idx + 1] IN
       \/ /\ t = TestThread
          /\ all_episodes' = Append(all_episodes, Record(t, <<1, 1>>))
          /\ yielded' = Append(yielded, Record(t, <<1, 1>>))
          /\ UNCHANGED <<fetched, thread_failed>>
          /\ IF idx + 1 = Selected
             THEN after_expansion(all_episodes')
             ELSE UNCHANGED <<pc, result>>
       \/ /\ t /= TestThread
          /\ fetched' = Append(fetched, t)
          /\ \/ /\ thread_failed' = TRUE
                /\ UNCHANGED <<all_episodes, yielded>>
                /\ IF idx + 1 = Selected
                   THEN after_expansion(all_episodes)
                   ELSE UNCHANGED <<pc, result>>
             \/ \E page \in ThreadPages(t) :
                  /\ Len(all_episodes) + Len(page) <= MaxRecords
                  /\ all_episodes' = all_episodes \o page
                  /\ yielded' = yielded \o page
                  /\ thread_failed' = thread_failed
                  /\ IF idx + 1 = Selected
                     THEN after_expansion(all_episodes')
                     ELSE UNCHANGED <<pc, result>>
    /\ UNCHANGED <<session_vars, reply, attempt, ret, stats, season, sonarr_api, authed,
                   threads, searched, tracker, tracker_calls>>

\* (variant: the tracker is asked again whenever it gave nothing)
search_tracker_retries_on_empty ==
    /\ pc["req"] = "s_tracker"
    /\ tracker_calls <= MaxTrackerAttempts
    /\ \E o \in TrackerOutcomes[season] :
        /\ tracker' = o
        /\ tracker_calls' = tracker_calls + 1
        /\ IF o.missing = {}
           THEN UNCHANGED <<pc, result>>
           ELSE /\ pc' = [pc EXCEPT !["req"] = "s_done"]
                /\ result' = reconcile(all_episodes, o.missing)
    /\ UNCHANGED <<session_vars, reply, attempt, ret, stats, season, sonarr_api, authed,
                   threads, idx, all_episodes, yielded, fetched, thread_failed,
                   searched>>

\* core.py:190-236: one call of get_missing_episodes in the loop of range(3).
\* A RequestException out of it would lead to the next attempt and, after
\* the third, to the fallback of line 236; a list ends the loop and is
\* applied (lines 204-230)
search_tracker ==
    /\ pc["req"] = "s_tracker"
    /\ \E o \in TrackerOutcomes[season] :
        /\ tracker' = o
        /\ tracker_calls' = tracker_calls + 1
        /\ IF o.raised
           THEN IF tracker_calls + 1 < MaxTrackerAttempts
                THEN UNCHANGED <<pc, result>>
                ELSE /\ pc' = [pc EXCEPT !["req"] = "s_done"]
                     /\ result' = all_episodes
           ELSE /\ pc' = [pc EXCEPT !["req"] = "s_done"]
                /\ result' = reconcile(all_episodes, o.missing)
    /\ UNCHANGED <<session_vars, reply, attempt, ret, stats, season, sonarr_api, authed,
                   threads, idx, all_episodes, yielded, fetched, thread_failed,
                   searched>>

\* torznab.py:95, app.py:56-58: the feed, or the error document, is sent
search_reply ==
    /\ pc["req"] \in {"s_done", "s_raised"}
    /\ pc' = [pc EXCEPT !["req"] = "r_idle"]
    /\ reply' = IF pc["req"] = "s_raised" THEN torznab_error
                 ELSE build_torznab_xml(result)
    /\ search_reset
    /\ UNCHANGED <<session_vars, attempt, ret, stats, sonarr_api>>

\* one request thread serving searches; the renewal thread is asleep
InitSearch ==
    /\ username = "set"
    /\ password = "set"
    /\ retries = 1
    /\ blob = NoFile
    /\ jar = 0
    /\ pc = [t \in Threads |-> CASE t = "main" -> "serving"
                                  [] t = "bg" -> "b_sleep"
                                  [] OTHER -> "r_idle"]
    /\ attempt = [t \in Threads |-> 0]
    /\ ret = [t \in Threads |-> "none"]
    /\ consecutive_failures = 0
    /\ stats = [t \in Threads |-> NoStats]
    /\ streak = 0
    /\ login_failures = 0
    /\ probe = NoProbe
    /\ boot = "up"
    /\ prior = NoFile
    /\ sonarr_api \in BOOLEAN
    /\ NoSearch
    /\ NoParse
    /\ NoExtras
    /\ api_jar = load_cookies(blob)

search_next ==
    \/ search_start
    \/ login_step("req")
    \/ search_after_login
    \/ search_find
    \/ search_expand
    \/ search_tracker
    \/ search_reply

SpecSearch == InitSearch /\ [][search_next]_vars

\* ------------------------------------------- the filter of core.py:204-230
\* the lists of at most n records of one thread
RecordLists(n) ==
    UNION {[1..k -> {Record(1, l) : l \in Labels}] : k \in 0..n}

\* the filter on its own: any aggregated records, any missing set
InitFilter ==
    /\ username = "set"
    /\ password = "set"
    /\ retries = 1
    /\ blob = NoFile
    /\ jar = 0
    /\ pc = [t \in Threads |-> CASE t = "main" -> "serving"
                                  [] t = "bg" -> "b_sleep"
                                  [] OTHER -> "s_filter"]
    /\ attempt = [t \in Threads |-> 0]
    /\ ret = [t \in Threads |-> "none"]
    /\ consecutive_failures = 0
    /\ stats = [t \in Threads |-> NoStats]
    /\ streak = 0
    /\ login_failures = 0
    /\ probe = NoProbe
    /\ boot = "up"
    /\ prior = NoFile
    /\ sonarr_api = TRUE
    /\ season \in Seasons
    /\ threads = <<1>>
    /\ idx = 1
    /\ all_episodes \in RecordLists(MaxRecords)
    /\ yielded = all_episodes
    /\ fetched = <<1>>
    /\ thread_failed = FALSE
    /\ searched = "ok"
    /\ authed = TRUE
    /\ \E m \in SUBSET (Seasons \X Episodes) :
          tracker = [kind |-> "listed", series_monitored |-> TRUE,
                     raised |-> FALSE, missing |-> m]
    /\ tracker_calls = 1
    /\ result = <<>>
    /\ NoParse
    /\ NoExtras
    /\ api_jar = load_cookies(blob)

\* (variant: the aggregated records are returned as they are)
filter_apply_unfiltered ==
    /\ pc["req"] = "s_filter"
    /\ pc' = [pc EXCEPT !["req"] = "s_done"]
    /\ result' = all_episodes
    /\ UNCHANGED <<session_vars, reply, attempt, ret, stats, season, sonarr_api,
                   authed, threads, idx, all_episodes, yielded, fetched,
                   thread_failed, searched, tracker, tracker_calls>>

\* lines 204-230 applied to the records and the missing set
filter_apply ==
    /\ pc["req"] = "s_filter"
    /\ pc' = [pc EXCEPT !["req"] = "s_done"]
    /\ result' = reconcile(all_episodes, tracker.missing)
    /\ UNCHANGED <<session_vars, reply, attempt, ret, stats, season, sonarr_api,
                   authed, threads, idx, all_episodes, yielded, fetched,
                   thread_failed, searched, tracker, tracker_calls>>

SpecFilter == InitFilter /\ [][filter_apply]_vars

\* ------------------------------------------------ the parsers on their own
\* the process is serving, the request thread is at position at, and nothing
\* else is under way
Serving(at) ==
    /\ username = "set"
    /\ password = "set"
    /\ retries = 1
    /\ blob = NoFile
    /\ jar = 0
    /\ pc = [t \in Threads |-> CASE t = "main" -> "serving"
                                  [] t = "bg" -> "b_sleep"
                                  [] OTHER -> at]
    /\ attempt = [t \in Threads |-> 0]
    /\ ret = [t \in Threads |-> "none"]
    /\ consecutive_failures = 0
    /\ stats = [t \in Threads |-> NoStats]
    /\ streak = 0
    /\ login_failures = 0
    /\ probe = NoProbe
    /\ boot = "up"
    /\ prior = NoFile
    /\ sonarr_api = FALSE
    /\ NoSearch
    /\ NoExtras
    /\ api_jar = 0

\* any text of at most MaxWords words of thread titles
InitParse ==
    /\ Serving("p_text")
    /\ words \in WordLists(Len(Lexicon), MaxWords)
    /\ text = Join(Lexicon, words, <<" ">>)
    /\ info = Unparsable
    /\ parsed = <<NoNumber, NoNumber>>
    /\ links = <<>>
    /\ expanded = <<>>

\* parsing.py:15-69 applied to the text
extract_text ==
    /\ pc["req"] = "p_text"
    /\ pc' = [pc EXCEPT !["req"] = "p_done"]
    /\ info' = extract_episode_info(text)
    /\ UNCHANGED <<username, password, retries, jar, blob, attempt, ret,
                   consecutive_failures, stats, streak, login_failures, probe,
                   dvars, api_jar, season, sonarr_api, threads, idx,
                   all_episodes, yielded, fetched, thread_failed, searched,
                   authed, tracker, tracker_calls, result, words, text,
                   parsed, links, expanded, reply, xvars>>

SpecParse == InitParse /\ [][extract_text]_vars

\* any file name of at most MaxWords words, joined by dots
InitFilename ==
    /\ Serving("f_name")
    /\ words \in WordLists(Len(FileLexicon), MaxWords)
    /\ text = Join(FileLexicon, words, <<".">>)
    /\ info = Unparsable
    /\ parsed = <<NoNumber, NoNumber>>
    /\ links = <<>>
    /\ expanded = <<>>

\* core.py:332-365 applied to the file name
parse_filename ==
    /\ pc["req"] = "f_name"
    /\ pc' = [pc EXCEPT !["req"] = "f_done"]
    /\ parsed' = parse_episode_from_filename(text)
    /\ UNCHANGED <<username, password, retries, jar, blob, attempt, ret,
                   consecutive_failures, stats, streak, login_failures, probe,
                   dvars, api_jar, season, sonarr_api, threads, idx,
                   all_episodes, yielded, fetched, thread_failed, searched,
                   authed, tracker, tracker_calls, result, words, text,
                   info, links, expanded, reply, xvars>>

SpecFilename == InitFilename /\ [][parse_filename]_vars

\* ------------------------------------- thread expansion (core.py:253-330)
\* urllib.parse.unquote, for the escapes the display names carry
unquote(v) ==
    [k \in 1..Len(v) |-> CASE v[k] = "%20" -> " "
                           [] v[k] = "%2E" -> "."
                           [] OTHER -> v[k]]

\* the hrefs of release links: what they start with and their key=value
\* parts in order; with the season and episode their display name stands for
Hrefs == <<
    [id |-> 1, prefix |-> "magnet:?",
     parts |-> <<[key |-> "xt", value |-> <<"h", "1">>],
                 [key |-> "dn", value |-> <<"S", "h", "o", "w", ".", "S", "0", "2", "E", "0", "3">>]>>,
     season |-> 2, episode |-> 3],
    [id |-> 2, prefix |-> "magnet:?",
     parts |-> <<[key |-> "xt", value |-> <<"h", "2">>],
                 [key |-> "dn", value |-> <<"S", "h", "o", "w">>]>>,
     season |-> NoNumber, episode |-> NoNumber],
    [id |-> 3, prefix |-> "magnet:?",
     parts |-> <<[key |-> "xt", value |-> <<"h", "3">>]>>,
     season |-> NoNumber, episode |-> NoNumber],
    [id |-> 4, prefix |-> "magnet:",
     parts |-> <<[key |-> "xt", value |-> <<"h", "4">>],
                 [key |-> "dn", value |-> <<"S", "h", "o", "w", ".", "S", "0", "2", "E", "0", "3">>]>>,
     season |-> NoNumber, episode |-> NoNumber],
    [id |-> 5, prefix |-> "magnet:?",
     parts |-> <<[key |-> "dn", value |-> <<"S", "h", "o", "w", "%20", "S", "0", "1">>],
                 [key |-> "xt", value |-> <<"h", "5">>]>>,
     season |-> 1, episode |-> NoNumber]>>

\* the text of the block around a release link (parsing.py:70-84 would read
\* it): none, an episode, prose
Contexts == {<<>>, <<"S", "0", "1", "E", "0", "1">>, <<"s", "h", "o", "w">>}

\* a release link of a thread page: a.magnetBtn[href^="magnet:"]
PageLinks == [href : 1..Len(Hrefs), context : Contexts]

\* the pages of at most k release links
LinkLists(k) == UNION {[1..m -> PageLinks] : m \in 0..k}

\* _extract_filename_from_magnet: '' unless the URI starts with 'magnet:?';
\* else the unquoted value of the last dn part, '' without one
extract_filename_from_magnet(uri) ==
    LET dns == {k \in 1..Len(uri.parts) : uri.parts[k].key = "dn"}
    IN IF uri.prefix /= "magnet:?" \/ dns = {} THEN <<>>
       ELSE unquote(uri.parts[CHOOSE k \in dns : \A j \in dns : j <= k].value)

\* _get_thread_data, lines 268-277: of each link the href alone is kept
get_thread_data(ls) == [k \in 1..Len(ls) |-> [url |-> Hrefs[ls[k].href]]]

\* _expand_thread_episodes, lines 290-312: the record of one magnet
episode_data(magnet) ==
    LET name == extract_filename_from_magnet(magnet.url)
    IN [title |-> name, magnet |-> magnet.url.id,
        season |-> parse_episode_from_filename(name)[1],
        episode |-> parse_episode_from_filename(name)[2]]

\* (variant: a magnet without a display name gives no record)
expand_thread_episodes_named_only(magnets) ==
    SelectSeq([k \in 1..Len(magnets) |-> episode_data(magnets[k])],
              LAMBDA e : e.title /= <<>>)

\* _expand_thread_episodes: one record for each magnet, in order
expand_thread_episodes(magnets) ==
    [k \in 1..Len(magnets) |-> episode_data(magnets[k])]

\* core.py:177-179: the thread data of the page, expanded
expand_page(ls) == expand_thread_episodes(get_thread_data(ls))

\* any thread page of at most MaxLinks release links
InitExpand ==
    /\ Serving("x_page")
    /\ words = <<>>
    /\ text = <<>>
    /\ info = Unparsable
    /\ parsed = <<NoNumber, NoNumber>>
    /\ links \in LinkLists(MaxLinks)
    /\ expanded = <<>>

\* core.py:177-179 applied to the page
expand_thread ==
    /\ pc["req"] = "x_page"
    /\ pc' = [pc EXCEPT !["req"] = "x_done"]
    /\ expanded' = expand_page(links)
    /\ UNCHANGED <<username, password, retries, jar, blob, attempt, ret,
                   consecutive_failures, stats, streak, login_failures, probe,
                   dvars, api_jar, season, sonarr_api, threads, idx,
                   all_episodes, yielded, fetched, thread_failed, searched,
                   authed, tracker, tracker_calls, result, words, text,
                   info, parsed, links, reply, xvars>>

SpecExpand == InitExpand /\ [][expand_thread]_vars

\* ---------------------- contains_season (parsing.py:99-118, core.py:145)
\* title.lower(), for the letters the titles have in upper case
title_lower(t) == [k \in 1..Len(t) |-> fold(t[k])]

\* str(season), one digit
season_str(n) == <<DigitChars[n + 1]>>

\* 0*
zeros(t, p) == p + RunLen(t, p, LAMBDA c : c = "0")

\* \w
IsWordChar(c) == c \notin {" ", "-", ".", ","}

\* \b at position p: a word character on one side only
boundary(t, p) ==
    (p - 1 >= 1 /\ IsWordChar(t[p - 1])) /= (p <= Len(t) /\ IsWordChar(t[p]))

\* Stagion[ei]
stagion_ei(t, i) ==
    lit(t, i, w_stagion) /\ i + 7 <= Len(t) /\ t[i + 7] \in {"e", "i"}

w_completa == <<"c", "o", "m", "p", "l", "e", "t", "a">>

\* what rf'..\d{1,2}..' comes to: {1,2} is replaced by the text (1, 2)
w_one_two == <<"1", ",", " ", "2">>

\* the ten patterns, each at position i of the title in lower case
\* Season\s*0*N
season_word(t, i, n) ==
    lit(t, i, w_season) /\ lit(t, zeros(t, spaces(t, i + 6)), season_str(n))
\* Stagion[ei]\s*0*N(\s*-\s*0*\d+)?
season_stagione(t, i, n) ==
    stagion_ei(t, i) /\ lit(t, zeros(t, spaces(t, i + 8)), season_str(n))
\* S0*N(\s*-\s*S0*\d+)?
season_s_zeros(t, i, n) ==
    lit(t, i, w_s) /\ lit(t, zeros(t, i + 1), season_str(n))
\* SN
season_s(t, i, n) == lit(t, i, w_s \o season_str(n))
\* \bN\b
season_bare(t, i, n) ==
    boundary(t, i) /\ lit(t, i, season_str(n)) /\ boundary(t, i + 1)
\* Stagion[ei]\s*complete
stagione_complete(t, i) ==
    stagion_ei(t, i) /\ lit(t, spaces(t, i + 8), w_complete)
\* \bcomplete\b
marker_complete(t, i) ==
    boundary(t, i) /\ lit(t, i, w_complete) /\ boundary(t, i + 8)
\* \bcompleta\b
marker_completa(t, i) ==
    boundary(t, i) /\ lit(t, i, w_completa) /\ boundary(t, i + 8)
\* S\d(1, 2)-S\d(1, 2)
season_s_range(t, i) ==
    /\ lit(t, i, w_s) /\ UpTo(t, i + 1, 1) = 1 /\ lit(t, i + 2, w_one_two)
    /\ lit(t, i + 6, <<"-">> \o w_s) /\ UpTo(t, i + 8, 1) = 1
    /\ lit(t, i + 9, w_one_two)
\* Stagion[ei]\s*\d(1, 2)-\d(1, 2)
season_stagione_range(t, i) ==
    /\ stagion_ei(t, i)
    /\ UpTo(t, spaces(t, i + 8), 1) = 1
    /\ lit(t, spaces(t, i + 8) + 1, w_one_two \o <<"-">>)
    /\ UpTo(t, spaces(t, i + 8) + 6, 1) = 1
    /\ lit(t, spaces(t, i + 8) + 7, w_one_two)

\* EpisodeParser.contains_season: some pattern is found in the title
contains_season(title, n) ==
    \E i \in 1..Len(title) :
        \/ season_word(title_lower(title), i, n)
        \/ season_stagione(title_lower(title), i, n)
        \/ season_s_zeros(title_lower(title), i, n)
        \/ season_s(title_lower(title), i, n)
        \/ season_bare(title_lower(title), i, n)
        \/ stagione_complete(title_lower(title), i)
        \/ marker_complete(title_lower(title), i)
        \/ marker_completa(title_lower(title), i)
        \/ season_s_range(title_lower(title), i)
        \/ season_stagione_range(title_lower(title), i)

\* the words of thread titles: one that names a season (token), a
\* completeness marker, or another word
SeasonLexicon == <<
    [chars |-> <<"S", "h", "o", "w">>,
     form |-> "filler", season |-> NoNumber],
    [chars |-> <<"S", "e", "a", "s", "o", "n", " ", "1">>,
     form |-> "token", season |-> 1],
    [chars |-> <<"S", "e", "a", "s", "o", "n", " ", "0", "2">>,
     form |-> "token", season |-> 2],
    [chars |-> <<"S", "t", "a", "g", "i", "o", "n", "e", " ", "3">>,
     form |-> "token", season |-> 3],
    [chars |-> <<"S", "0", "2">>,
     form |-> "token", season |-> 2],
    [chars |-> <<"S", "1">>,
     form |-> "token", season |-> 1],
    [chars |-> <<"S", "1", "2">>,
     form |-> "token", season |-> 12],
    [chars |-> <<"S", "0", "1", "-", "S", "0", "3">>,
     form |-> "filler", season |-> NoNumber],
    [chars |-> <<"3">>,
     form |-> "token", season |-> 3],
    [chars |-> <<"2", "0", "1", "9">>,
     form |-> "filler", season |-> NoNumber],
    [chars |-> <<"c", "o", "m", "p", "l", "e", "t", "e">>,
     form |-> "marker", season |-> NoNumber],
    [chars |-> <<"C", "o", "m", "p", "l", "e", "t", "a">>,
     form |-> "marker", season |-> NoNumber],
    [chars |-> <<"S", "t", "a", "g", "i", "o", "n", "e", " ", "c", "o", "m", "p", "l", "e", "t", "e">>,
     form |-> "marker", season |-> NoNumber],
    [chars |-> <<"i", "n", "c", "o", "m", "p", "l", "e", "t", "e">>,
     form |-> "filler", season |-> NoNumber]>>

\* any title of at most MaxWords words, any season asked for
InitSeason ==
    /\ username = "set"
    /\ password = "set"
    /\ retries = 1
    /\ blob = NoFile
    /\ jar = 0
    /\ pc = [t \in Threads |-> CASE t = "main" -> "serving"
                                  [] t = "bg" -> "b_sleep"
                                  [] OTHER -> "c_title"]
    /\ attempt = [t \in Threads |-> 0]
    /\ ret = [t \in Threads |-> "none"]
    /\ consecutive_failures = 0
    /\ stats = [t \in Threads |-> NoStats]
    /\ streak = 0
    /\ login_failures = 0
    /\ probe = NoProbe
    /\ boot = "up"
    /\ prior = NoFile
    /\ sonarr_api = FALSE
    /\ season \in Seasons
    /\ threads = <<>>
    /\ idx = 0
    /\ all_episodes = <<>>
    /\ yielded = <<>>
    /\ fetched = <<>>
    /\ thread_failed = FALSE
    /\ searched = "no"
    /\ authed = TRUE
    /\ tracker = NoTracker
    /\ tracker_calls = 0
    /\ result = <<>>
    /\ words \in WordLists(Len(SeasonLexicon), MaxWords)
    /\ text = Join(SeasonLexicon, words, <<" ">>)
    /\ info = Unparsable
    /\ parsed = <<NoNumber, NoNumber>>
    /\ links = <<>>
    /\ expanded = <<>>
    /\ NoExtras
    /\ api_jar = 0

\* core.py:145: is the thread of this title kept for the season
title_check ==
    /\ pc["req"] = "c_title"
    /\ pc' = [pc EXCEPT !["req"] = "c_done"]
    /\ in_season' = IF contains_season(text, season) THEN "yes" ELSE "no"
    /\ UNCHANGED <<username, password, retries, jar, blob, attempt, ret,
                   consecutive_failures, stats, streak, login_failures, probe,
                   dvars, api_jar, season, sonarr_api, threads, idx,
                   all_episodes, yielded, fetched, thread_failed, searched,
                   authed, tracker, tracker_calls, result, reply, words, text,
                   info, parsed, links, expanded, backoff, click, lvars>>

SpecSeason == InitSeason /\ [][title_check]_vars

\* ------------------- the like of the first post (core.py:44-84, 253-283)
\* what the page shows of its first post: no first post, no post buttons,
\* buttons without a thanks link, or the thanks link
PagePosts == {"no_post", "no_buttons", "no_like", "like"}

\* random.uniform(5, 15): the shortest, a middle and the longest delay
LikeDelays == {5, 10, 15}

\* a thread other than the mock thread is about to be fetched
InitLike ==
    /\ Serving("k_page")
    /\ words = <<>>
    /\ text = <<>>
    /\ info = Unparsable
    /\ parsed = <<NoNumber, NoNumber>>
    /\ links \in LinkLists(MaxLinks)
    /\ expanded = <<>>

\* click_like_if_present, lines 47-66 and 80-84: the page is requested; the
\* request fails, or the first post has no thanks link, and the function
\* returns; or the link is found
click_page ==
    /\ pc["req"] = "k_page"
    /\ \E p \in PagePosts \cup {"failed"} :
        /\ click' = [click EXCEPT !.page = p]
        /\ pc' = [pc EXCEPT !["req"] = IF p = "like" THEN "k_like"
                                       ELSE "k_fetch"]
    /\ UNCHANGED <<username, password, retries, jar, blob, attempt, ret,
                   consecutive_failures, stats, streak, login_failures, probe,
                   dvars, api_jar, season, sonarr_api, threads, idx,
                   all_episodes, yielded, fetched, thread_failed, searched,
                   authed, tracker, tracker_calls, result, reply, words, text,
                   info, parsed, links, expanded, backoff, in_season, lvars>>

\* lines 76-79 and 83-84: the thanks link is requested; answered (with any
\* status), the delay is slept; a request that raises is logged and the
\* function returns at once
click_like ==
    /\ pc["req"] = "k_like"
    /\ \/ \E delay \in LikeDelays :
             click' = [click EXCEPT !.requests = @ + 1, !.delay = @ + delay]
       \/ click' = [click EXCEPT !.requests = @ + 1]
    /\ pc' = [pc EXCEPT !["req"] = "k_fetch"]
    /\ UNCHANGED <<username, password, retries, jar, blob, attempt, ret,
                   consecutive_failures, stats, streak, login_failures, probe,
                   dvars, api_jar, season, sonarr_api, threads, idx,
                   all_episodes, yielded, fetched, thread_failed, searched,
                   authed, tracker, tracker_calls, result, reply, words, text,
                   info, parsed, links, expanded, backoff, in_season, lvars>>

\* _get_thread_data, lines 255-283, and core.py:177-182: the page is
\* requested again and its release links are expanded; a failure gives {}
thread_fetch ==
    /\ pc["req"] = "k_fetch"
    /\ \/ /\ click' = [click EXCEPT !.fetch = "ok"]
          /\ expanded' = expand_page(links)
       \/ /\ click' = [click EXCEPT !.fetch = "failed"]
          /\ expanded' = <<>>
    /\ pc' = [pc EXCEPT !["req"] = "k_done"]
    /\ UNCHANGED <<username, password, retries, jar, blob, attempt, ret,
                   consecutive_failures, stats, streak, login_failures, probe,
                   dvars, api_jar, season, sonarr_api, threads, idx,
                   all_episodes, yielded, fetched, thread_failed, searched,
                   authed, tracker, tracker_calls, result, reply, words, text,
                   info, parsed, links, backoff, in_season, lvars>>

like_next == click_page \/ click_like \/ thread_fetch

SpecLike == InitLike /\ [][like_next]_vars

\* ------------------------------- the like API (app.py:131-203, models,
\* services/cache_service.py)
\* filter_by(thread_id, user_id, unliked_at=None).first(): the first active
\* row of the user, 0 for None
first_active(rows) ==
    IF \A k \in 1..Len(rows) : rows[k] /= "active" THEN 0
    ELSE CHOOSE k \in 1..Len(rows) :
            rows[k] = "active" /\ \A j \in 1..(k - 1) : rows[j] /= "active"

\* the active rows (unliked_at is NULL) of the users of S
RECURSIVE active_likes(_, _)
active_likes(likes, S) ==
    IF S = {} THEN 0
    ELSE LET u == CHOOSE x \in S : TRUE
         IN Cardinality({k \in 1..Len(likes[u]) : likes[u][k] = "active"})
            + active_likes(likes, S \ {u})

\* CacheService._incr / _decr: (self._get(key) or 0) + d, stored again
counter_add(entry, d) ==
    [present |-> TRUE, data |-> (IF entry.present THEN entry.data ELSE 0) + d]

\* the tables and cache entries as they are
Tables == [likes |-> db_likes, history |-> db_history, marks |-> cache_marks,
           count |-> cache_count]

\* the requests not yet answered see that something happened beside them
disturbed(fs, what) ==
    [r \in Requests |->
        IF fs[r].at = "idle" \/ fs[r].beside = "request" THEN fs[r]
        ELSE [fs[r] EXCEPT !.beside = what]]

\* what a request that begins has beside it: "request" when another one is
\* between its first read and its response
overlapped(fs) ==
    IF \A q \in Requests : fs[q].at \in {"idle", "done"} THEN "no"
    ELSE "request"

\* the process serves; the tables are empty, the metadata row of the
\* thread is there or not
InitLikes ==
    /\ username = "set"
    /\ password = "set"
    /\ retries = 1
    /\ blob = NoFile
    /\ jar = 0
    /\ pc = [t \in Threads |-> CASE t = "main" -> "serving"
                                  [] t = "bg" -> "b_sleep"
                                  [] OTHER -> "r_idle"]
    /\ attempt = [t \in Threads |-> 0]
    /\ ret = [t \in Threads |-> "none"]
    /\ consecutive_failures = 0
    /\ stats = [t \in Threads |-> NoStats]
    /\ streak = 0
    /\ login_failures = 0
    /\ probe = NoProbe
    /\ boot = "up"
    /\ prior = NoFile
    /\ sonarr_api = FALSE
    /\ NoSearch
    /\ NoParse
    /\ reply = NoReply
    /\ backoff = NoBackoff
    /\ click = NoClick
    /\ in_season = "none"
    /\ db_likes = [u \in Users |-> <<>>]
    /\ db_history = <<>>
    /\ db_like_count \in [exists : BOOLEAN, like_count : {0}]
    /\ cache_count = [present |-> FALSE, data |-> 0]
    /\ cache_marks = {}
    /\ frames = [r \in Requests |-> NoFrame]
    /\ begun = 0
    /\ api_jar = 0

\* what the like API leaves alone
like_frame == <<username, password, retries, jar, blob, pc, attempt, ret,
                consecutive_failures, stats, streak, login_failures, probe,
                dvars, api_jar, season, sonarr_api, threads, idx,
                all_episodes, yielded, fetched, thread_failed, searched,
                authed, tracker, tracker_calls, result, reply, words, text,
                info, parsed, links, expanded, backoff, click, in_season>>

\* like_thread, lines 135-147 and the decorator: the request is refused
\* before the database is opened (403, 401, 400 for the action, 429)
like_refused(r) ==
    /\ frames[r].at = "idle"
    /\ begun < MaxRequests
    /\ begun' = begun + 1
    /\ \E code \in {403, 401, 400, 429} :
          frames' = [disturbed(frames, "request") EXCEPT ![r] =
                        [NoFrame EXCEPT !.at = "done", !.status = code,
                                        !.before = Tables,
                                        !.beside = overlapped(frames)]]
    /\ UNCHANGED <<like_frame, db_likes, db_history, db_like_count,
                   cache_count, cache_marks>>

\* lines 149-161: existing_like is read; "Already liked" and "Not liked" are
\* answered with 400; a failure of the query is answered with 500
like_begin(r) ==
    /\ frames[r].at = "idle"
    /\ begun < MaxRequests
    /\ begun' = begun + 1
    /\ \E u \in Users, act \in {"like", "unlike"}, db_up \in BOOLEAN :
        LET row == first_active(db_likes[u])
            fr == [NoFrame EXCEPT !.user = u, !.action = act,
                                  !.existing = row, !.before = Tables,
                                  !.beside = overlapped(frames)]
        IN frames' = [disturbed(frames, "request") EXCEPT ![r] =
                IF ~db_up
                THEN [fr EXCEPT !.at = "done", !.status = 500, !.existing = 0]
                ELSE IF (act = "like") = (row /= 0)
                THEN [fr EXCEPT !.at = "done", !.status = 400]
                ELSE [fr EXCEPT !.at = "checked"]]
    /\ UNCHANGED <<like_frame, db_likes, db_history, db_like_count,
                   cache_count, cache_marks>>

\* lines 163-174: the row is added or ended in the session (not yet in the
\* tables), and the cache is written: the mark of the user, the counter
like_cache(r) ==
    /\ frames[r].at = "checked"
    /\ cache_marks' = IF frames[r].action = "like"
                      THEN cache_marks \cup {frames[r].user}
                      ELSE cache_marks \ {frames[r].user}
    /\ cache_count' = counter_add(cache_count,
                                  IF frames[r].action = "like" THEN 1
                                  ELSE 0 - 1)
    /\ frames' = [frames EXCEPT ![r].at = "cached",
                                ![r].new_count = cache_count'.data]
    /\ UNCHANGED <<like_frame, db_likes, db_history, db_like_count, begun>>

\* lines 176-203: the history row, the metadata row and the commit: the
\* tables take the rows of the session and the response is 200; or one of
\* them raises, the session is rolled back and the response is 500
like_commit(r) ==
    /\ frames[r].at = "cached"
    /\ \/ /\ db_likes' =
                [db_likes EXCEPT ![frames[r].user] =
                    IF frames[r].action = "like" THEN Append(@, "active")
                    ELSE [@ EXCEPT ![frames[r].existing] = "ended"]]
          /\ db_history' = Append(db_history, [user |-> frames[r].user,
                                               action |-> frames[r].action])
          /\ db_like_count' =
                IF db_like_count.exists
                THEN [db_like_count EXCEPT !.like_count = frames[r].new_count]
                ELSE db_like_count
          /\ frames' = [frames EXCEPT ![r].at = "done", ![r].status = 200]
       \/ /\ frames' = [frames EXCEPT ![r].at = "done", ![r].status = 500]
          /\ UNCHANGED <<db_likes, db_history, db_like_count>>
    /\ UNCHANGED <<like_frame, cache_count, cache_marks, begun>>

\* the response is sent and the locals of the request are gone
like_return(r) ==
    /\ frames[r].at = "done"
    /\ frames' = [frames EXCEPT ![r] = NoFrame]
    /\ UNCHANGED <<like_frame, db_likes, db_history, db_like_count,
                   cache_count, cache_marks, begun>>

\* CacheService._get, lines 22-24: like_counts_ttl has passed since the
\* counter was written
expire_count ==
    /\ cache_count.present
    /\ cache_count' = [present |-> FALSE, data |-> 0]
    /\ frames' = disturbed(frames, "expiry")
    /\ UNCHANGED <<like_frame, db_likes, db_history, db_like_count,
                   cache_marks, begun>>

\* the same for the mark of a user, after user_like_status_ttl
expire_mark ==
    /\ \E u \in cache_marks : cache_marks' = cache_marks \ {u}
    /\ frames' = disturbed(frames, "expiry")
    /\ UNCHANGED <<like_frame, db_likes, db_history, db_like_count,
                   cache_count, begun>>

likes_next ==
    \/ \E r \in Requests :
          \/ like_refused(r)
          \/ like_begin(r)
          \/ like_cache(r)
          \/ like_commit(r)
          \/ like_return(r)
    \/ expire_count
    \/ expire_mark

SpecLikes == InitLikes /\ [][likes_next]_vars

\* ------------------------------- the waits of login() (auth.py:136-142)
\* a login of up to MaxAttempts attempts, each of which fails
InitBackoff ==
    /\ username = "set"
    /\ password = "set"
    /\ retries \in 1..MaxAttempts
    /\ blob = NoFile
    /\ jar = 0
    /\ pc = [t \in Threads |-> CASE t = "main" -> "serving"
                                  [] t = "bg" -> "b_sleep"
                                  [] OTHER -> "w_loop"]
    /\ attempt = [t \in Threads |-> 0]
    /\ ret = [t \in Threads |-> "none"]
    /\ consecutive_failures = 0
    /\ stats = [t \in Threads |-> NoStats]
    /\ streak = 0
    /\ login_failures = 0
    /\ probe = NoProbe
    /\ boot = "up"
    /\ prior = NoFile
    /\ sonarr_api = FALSE
    /\ NoSearch
    /\ NoParse
    /\ NoExtras
    /\ api_jar = 0

\* lines 136-141: the next pass of the loop computes wait_time and
\* actual_wait = wait_time * jitter (kept in halves: jitter is 1, 2 or 3
\* halves); after the last pass the loop ends
backoff_loop ==
    /\ pc["req"] = "w_loop"
    /\ IF attempt["req"] < retries - 1
       THEN /\ attempt' = [attempt EXCEPT !["req"] = @ + 1]
            /\ \E jitter \in Jitter :
                  backoff' = [wait_time |-> wait_time(attempt["req"] + 1),
                              actual_wait |->
                                  wait_time(attempt["req"] + 1) * jitter]
            /\ pc' = pc
       ELSE /\ pc' = [pc EXCEPT !["req"] = "w_done"]
            /\ UNCHANGED <<attempt, backoff>>
    /\ UNCHANGED <<username, password, retries, jar, blob, ret,
                   consecutive_failures, stats, streak, login_failures, probe,
                   dvars, api_jar, season, sonarr_api, threads, idx,
                   all_episodes, yielded, fetched, thread_failed, searched,
                   authed, tracker, tracker_calls, result, reply, words, text,
                   info, parsed, links, expanded, click, in_season, lvars>>

SpecBackoff == InitBackoff /\ [][backoff_loop]_vars

\* ------------------------------------------ APIAuthManager (api_auth.py)
\* app.py:28-29 on a start of the process: MIRCrewSmartIndexer and
\* APIAuthManager each build an AuthManager, each with a Session of its own
\* that loads the cookie file, whatever a run before has left of it
InitApi ==
    /\ username = "set"
    /\ password = "set"
    /\ retries = 1
    /\ blob \in BlobVals
    /\ jar = load_cookies(blob)
    /\ api_jar = load_cookies(blob)
    /\ pc = [t \in Threads |-> IF t = "main" THEN "startup" ELSE "off"]
    /\ attempt = [t \in Threads |-> 0]
    /\ ret = [t \in Threads |-> "none"]
    /\ consecutive_failures = 0
    /\ stats = [t \in Threads |-> NoStats]
    /\ streak = 0
    /\ login_failures = 0
    /\ probe = NoProbe
    /\ boot = "restart"
    /\ prior = NoFile
    /\ sonarr_api = FALSE
    /\ NoSearch
    /\ NoParse
    /\ NoExtras

\* api_auth.py:22-26, get_session_user for an API request: the probe is sent
\* with the cookies of the API layer's own session, which the answer updates
api_get_session_user ==
    /\ pc["req"] = "r_idle"
    /\ \E out \in ProbeOutcomes[username], j \in JarVals : api_jar' = j
    /\ UNCHANGED <<svars, dvars, username, password, retries, jar, blob, pc,
                   attempt, ret, consecutive_failures, stats, streak,
                   login_failures, probe>>

api_next ==
    \/ main_startup
    \/ login_step("main")
    \/ main_after_login
    \/ req_health
    \/ api_get_session_user

SpecApi == InitApi /\ [][api_next]_vars

\* ---------------------------------------------------- the process restarts
\* AuthManager.__init__, lines 34-36, in a new process: the old one ended (it
\* exited, was stopped, or crashed: at any point, also in the middle of
\* save_cookies); the settings are read again from the environment
\* (the session of the API layer is followed in SpecApi)
restart ==
    /\ pc["main"] /= "startup"
    /\ username' \in CredVals
    /\ password' \in CredVals
    /\ jar' = load_cookies(blob)
    /\ pc' = [t \in Threads |-> IF t = "main" THEN "startup" ELSE "off"]
    /\ attempt' = [t \in Threads |-> 0]
    /\ ret' = [t \in Threads |-> "none"]
    /\ stats' = [t \in Threads |-> NoStats]
    /\ consecutive_failures' = 0
    /\ streak' = 0
    /\ login_failures' = 0
    /\ IF \E t \in Threads : pc[t] = "l_dump"
       THEN boot' = "torn" /\ prior' = prior
       ELSE boot' = "restart" /\ prior' = NoFile
    /\ UNCHANGED <<svars, api_jar, retries, blob, probe>>

Next ==
    \/ main_startup
    \/ main_after_login
    \/ restart
    \/ \E t \in Threads : login_step(t)
    \/ bg_probe
    \/ bg_after_login
    \/ bg_cool_down
    \/ bg_sleep
    \/ bg_raise
    \/ bg_except
    \/ bg_err_sleep
    \/ req_health
    \/ req_search
    \/ req_after_login

Spec == Init /\ [][Next]_vars

\* ---------------------------------------------- the probe on its own
\* is_already_logged_in applied to every response of the forum, with the
\* username configured (no probe runs before the credential check of the
\* startup login has passed)
InitProbe ==
    /\ username = "set"
    /\ password = "set"
    /\ retries = 0
    /\ blob = NoFile
    /\ jar = 0
    /\ pc = [t \in Threads |-> "serving"]
    /\ attempt = [t \in Threads |-> 0]
    /\ ret = [t \in Threads |-> "none"]
    /\ consecutive_failures = 0
    /\ stats = [t \in Threads |-> NoStats]
    /\ streak = 0
    /\ login_failures = 0
    /\ probe = NoProbe
    /\ boot = "cold"
    /\ prior = NoFile
    /\ sonarr_api = FALSE
    /\ NoSearch
    /\ NoParse
    /\ NoExtras
    /\ api_jar = load_cookies(blob)

probe_check ==
    /\ \E resp \in Responses :
         probe' = [resp |-> resp,
                   out |-> is_already_logged_in(resp, username),
                   done |-> TRUE]
    /\ UNCHANGED <<svars, api_jar, dvars, username, password, retries, jar, blob, pc, attempt, ret,
                   consecutive_failures, stats, streak, login_failures>>

SpecProbe == InitProbe /\ [][probe_check]_vars

\* ------------------------------------------ the renewal thread, scheduled
\* the renewal thread is an OS thread: it is scheduled again and again, its
\* requests time out (timeout=30) and its sleeps end
bg_next ==
    \/ login_step("bg")
    \/ bg_probe
    \/ bg_after_login
    \/ bg_cool_down
    \/ bg_sleep
    \/ bg_raise
    \/ bg_except
    \/ bg_err_sleep

\* one run of the process, from its start on
run_next ==
    \/ main_startup
    \/ main_after_login
    \/ \E t \in Threads : login_step(t)
    \/ bg_probe
    \/ bg_after_login
    \/ bg_cool_down
    \/ bg_sleep
    \/ bg_raise
    \/ bg_except
    \/ bg_err_sleep
    \/ req_health
    \/ req_search
    \/ req_after_login

LiveSpec == Init /\ [][run_next]_vars /\ WF_vars(bg_next)

\* =================================================================== claims

\* C1: across the renewal loop and the requests served concurrently, at most
\* one thread is inside the attempt loop of login (form fetch, credential
\* submit, cookie save) at any time, and at most one thread is between
\* opening and closing the cookie file.
C1_LoginMutualExclusion ==
    /\ Cardinality({t \in Threads : pc[t] \in AttemptPcs}) <= 1
    /\ Cardinality({t \in Threads : pc[t] = "l_dump"}) <= 1

C3_AlreadyAuthenticatedNoAttempt ==
    \A t \in Threads :
        stats[t].already =>
            /\ pc[t] \in {"l_sid", "l_done"}
            /\ stats[t].gets = 0
            /\ stats[t].posts = 0
            /\ stats[t].saves = 0
            /\ pc[t] = "l_done" => ret[t] \in {"sid", "True"}

\* the startup login has returned, and a later call of a request finds the
\* session authenticated
C3_Witness ==
    /\ pc["req"] = "l_done"
    /\ stats["req"].already
    /\ stats["req"].probes = 1
    /\ ret["req"] = "sid"

\* C4: when the answer to the submit of attempt k passes the check after k-1
\* failed attempts, login returns success after exactly k <= retries
\* attempts and has called save_cookies exactly once.
C4_SuccessOnAttemptK ==
    \A t \in Threads :
        pc[t] = "l_done" /\ stats[t].verified =>
            /\ ret[t] \in {"sid", "True"}
            /\ stats[t].gets = stats[t].fails + 1
            /\ attempt[t] = stats[t].fails
            /\ stats[t].gets <= retries
            /\ stats[t].saves = 1

\* retries = 3, attempts 1 and 2 failed, attempt 3 was accepted
C4_Witness ==
    \E t \in Threads :
        /\ pc[t] = "l_done"
        /\ stats[t].verified
        /\ retries = 3
        /\ stats[t].fails = 2
        /\ stats[t].gets = 3
        /\ stats[t].saves = 1
        /\ ret[t] /= "False"

\* C5: a login call makes at most retries attempts; once retries attempts
\* have failed it has returned False, and a call that ends without an
\* accepted submit (credentials set, probe failed) returns False after
\* exactly retries attempts.
C5_AtMostMaxAttempts ==
    \A t \in Threads :
        /\ stats[t].gets <= retries
        /\ stats[t].posts <= 1
        /\ stats[t].probes = 1 /\ ~stats[t].already
              /\ stats[t].fails >= retries =>
              pc[t] = "l_done" /\ ret[t] = "False"
        /\ pc[t] = "l_done" /\ stats[t].probes = 1 /\ ~stats[t].already
              /\ ~stats[t].verified =>
              /\ ret[t] = "False"
              /\ stats[t].fails = retries
              /\ stats[t].gets = retries

C5_Witness ==
    \E t \in Threads :
        /\ pc[t] = "l_done"
        /\ ret[t] = "False"
        /\ retries = 3
        /\ stats[t].fails = 3
        /\ stats[t].gets = 3

\* C6: an attempt after the first does not start before the wait computed
\* for it has been slept (the jitter factor is at least 0.5).
C6_BackoffSeparatesRetries ==
    \A t \in Threads :
        pc[t] \in {"l_get", "l_post"} /\ attempt[t] > 0 =>
            2 * stats[t].slept >= stats[t].wait_time

\* C7: with the username or the password missing or empty, login returns
\* False at once: no probe, no form fetch, no submit, no save_cookies, and
\* the jar and the cookie file stay as startup left them.
C7_MissingCredentialsFailFast ==
    (username /= "set" \/ password /= "set") =>
        /\ \A t \in Threads :
            /\ stats[t] = NoStats
            /\ pc[t] \in {"startup", "off", "l_entry", "l_done", "exited"}
            /\ pc[t] = "l_done" => ret[t] = "False"
        /\ jar = load_cookies(blob)

C7_Witness ==
    /\ username = "set"
    /\ password = "empty"
    /\ pc["main"] = "l_done"
    /\ ret["main"] = "False"

\* C8 as stated: the loop is in the extended cool-down exactly when three
\* login failures have occurred in consecutive cycles, with no cycle in
\* between that found the session authenticated or logged in.
C8_CoolDownAfterThreeConsecutiveCycles ==
    (pc["bg"] = "b_cool") <=> (streak = max_consecutive_failures)

\* C8 amended: the loop is in the extended cool-down exactly when three
\* login calls of the loop have returned failure since its last successful
\* login call or cool-down (cycles whose probe finds the session
\* authenticated, or that raise, do not reset the count); leaving the
\* cool-down resets the count to zero and starts a new cycle.
C8_CoolDownAfterThreeFailedLogins ==
    /\ [](/\ (pc["bg"] = "b_cool") <=> (login_failures = 3)
          /\ consecutive_failures = login_failures)
    /\ [][pc["bg"] = "b_cool" /\ pc'["bg"] /= "b_cool" =>
            consecutive_failures' = 0 /\ pc'["bg"] \in {"b_probe", "off"}]_vars

\* the cool-down after failures that were not in consecutive cycles
C8_Witness ==
    /\ pc["bg"] = "b_cool"
    /\ login_failures = 3
    /\ streak < 3

\* C9: the renewal loop calls login only in a cycle whose probe reported the
\* session unauthenticated, and whatever happens in a cycle (failed probe,
\* failed login, exception) it comes back to the probe of a next cycle.
C9_RenewalLoopSurvives ==
    /\ [](pc["bg"] \in {"l_entry", "l_probe", "l_sid", "l_get", "l_post",
                        "l_save", "l_dump", "l_done"} =>
            stats["bg"].cycle_probe = "False")
    /\ [](pc["bg"] \notin {"off", "exited"} => <>(pc["bg"] = "b_probe"))

\* an exception was raised inside a cycle
C9_Witness == pc["bg"] = "b_err"

\* C10: save_cookies runs only in a call whose submit was answered by a page
\* that passed is_logged_in, once per such call, never in a call that
\* returns False; and the cookie file changes only in such a save.
C10_PersistOnlyAfterVerifiedLogin ==
    /\ [](\A t \in Threads :
            /\ pc[t] \in {"l_save", "l_dump"} \/ stats[t].saves > 0 =>
                  stats[t].verified
            /\ stats[t].saves <= 1
            /\ pc[t] = "l_done" /\ stats[t].verified => stats[t].saves = 1
            /\ pc[t] = "l_done" /\ ret[t] = "False" => stats[t].saves = 0)
    /\ [][blob' /= blob =>
            \E t \in Threads : /\ pc[t] \in {"l_save", "l_dump"}
                               /\ stats[t].verified
                               /\ pc'[t] /= pc[t]]_vars

C10_Witness ==
    \E t \in Threads :
        /\ pc[t] = "l_done"
        /\ stats[t].verified
        /\ stats[t].saves = 1
        /\ stats[t].fails > 0
        /\ blob = Pickled(jar)

C12_CrashLeavesValidBlob ==
    boot = "torn" /\ pc["main"] = "startup" =>
        blob = prior \/ blob.state = "ok"

C14_UnreachableFallsBack ==
    pc["req"] = "s_done" /\ tracker.kind = "down" => result = all_episodes

\* C15 as stated: the tracker answers and reports the series unmonitored, or
\* no monitored and missing episode of the season: the search returns [].
C15_UnmonitoredOrNoneMissingIsEmpty ==
    /\ pc["req"] = "s_done"
    /\ tracker.kind \notin {"none", "down"}
    /\ ~tracker.series_monitored \/ tracker.missing = {}
    => result = <<>>

\* C15: the tracker answers and no episode of the requested season is both
\* monitored and without a file (or the series is not found, or a request is
\* answered with an error status): the search returns [] whatever records
\* were discovered. The monitored flag of the series plays no part.
C15_NoneMissingIsEmpty ==
    /\ pc["req"] = "s_done"
    /\ tracker.kind \notin {"none", "down"}
    /\ tracker.missing = {}
    => result = <<>>

\* records were discovered, the tracker listed nothing wanted, [] is returned
C15_Witness ==
    /\ pc["req"] = "s_done"
    /\ tracker.kind = "listed"
    /\ tracker.missing = {}
    /\ all_episodes /= <<>>
    /\ result = <<>>

\* C16: one search calls the tracker at most 3 times, a call after the first
\* is made only when the one before raised, and after 3 calls the loop is
\* left.
C16_TrackerAttemptsBounded ==
    /\ [](/\ tracker_calls <= MaxTrackerAttempts
          /\ pc["req"] = "s_tracker" => tracker_calls < MaxTrackerAttempts)
    /\ [][tracker_calls' > tracker_calls /\ tracker_calls > 0 =>
            tracker.raised]_vars

\* the tracker was down, one call was made and the search has ended
C16_Witness ==
    /\ pc["req"] = "s_done"
    /\ tracker.kind = "down"
    /\ tracker_calls = 1

\* C17: thread discovery raises nothing: the only exception of a search is
\* the one of the season check, before discovery. Without a successful login
\* no search request is issued and no thread is found; a search request that
\* fails gives no thread; in both cases the search returns [].
C17_DiscoveryNeverRaises ==
    /\ pc["req"] = "s_raised" =>
          season /= NoNumber /\ season <= 0 /\ ~authed /\ searched = "no"
    /\ ~authed => searched = "no" /\ threads = <<>>
    /\ searched = "error" => threads = <<>>
    /\ pc["req"] = "s_done" /\ (~authed \/ searched = "error") => result = <<>>

\* login() returned False: the search has ended with [] and no search request
C17_Witness ==
    /\ pc["req"] = "s_done"
    /\ season = 1
    /\ ~authed
    /\ searched = "no"
    /\ result = <<>>

\* C18: the search request and the thread pages are requested only after a
\* successful login of that search; the pages requested are those of the
\* first threads of the result page, in its order, 5 at most; the records
\* are aggregated in that order; the tracker is called only when the loop
\* over the threads is over.
C18_StagesInOrder ==
    /\ searched /= "no" \/ fetched /= <<>> \/ threads /= <<>> => authed
    /\ Len(fetched) <= MaxExpand
    /\ threads /= <<TestThread>> => fetched = SubSeq(threads, 1, idx)
    /\ \A i \in 1..Len(all_episodes) : \A j \in 1..Len(all_episodes) :
          i < j => all_episodes[i].thread <= all_episodes[j].thread
    /\ \A i \in 1..Len(all_episodes) :
          \E k \in 1..idx : threads[k] = all_episodes[i].thread
    /\ tracker_calls > 0 => idx = Len(threads) \/ idx = MaxExpand

\* six threads found, five pages requested, then the tracker called
C18_Witness ==
    /\ pc["req"] = "s_done"
    /\ Len(threads) = 6
    /\ fetched = <<1, 2, 3, 4, 5>>
    /\ Len(all_episodes) = 2
    /\ tracker_calls = 1

\* C19: a thread whose fetch or expansion fails raises nothing out of the
\* search and takes no record of the other threads away: the aggregated
\* records are those the other pages carried, and a search without the
\* tracker stage returns them.
C19_ThreadFailureIsolated ==
    /\ thread_failed => pc["req"] /= "s_raised"
    /\ all_episodes = yielded
    /\ pc["req"] = "s_done" /\ idx > 0 /\ tracker_calls = 0 => result = yielded

\* one thread failed and the search returned the records of the others
C19_Witness ==
    /\ pc["req"] = "s_done"
    /\ thread_failed
    /\ tracker_calls = 0
    /\ Len(result) = 2

\* C20: the process ends at startup only when the username or the password
\* is missing; with both set, a startup login that fails (site unreachable,
\* unexpected page, every attempt failed) leaves the process running.
C20_StartupAbortsOnlyWithoutCredentials ==
    pc["main"] = "exited" /\ retries > 0 =>
        (username /= "set" \/ password /= "set")

\* C21: the process holds one session: while it serves, the cookies the API
\* layer probes with are the cookies that login has set and that search,
\* renewal and the health check use.
C21_OneSession == pc["main"] = "serving" => api_jar = jar

\* C22: episode-info extraction returns a record for every text and never
\* raises, also for a text with the notation "episodes M-N".
C22_ExtractionTotal == pc["req"] = "p_done" => info.kind /= "raise"

\* C23: the tiers are tried in the order pack, range, single: a text with a
\* pack phrasing gives a pack record whatever else it contains, and a text
\* with a range notation and no pack phrasing gives a range record.
C23_TierOrder ==
    LET has(f) == \E k \in 1..Len(words) : Lexicon[words[k]].form = f
    IN pc["req"] = "p_done" =>
        /\ has("pack") => info.kind = "pack"
        /\ ~has("pack") /\ has("range") => info.kind = "range"

\* C24: a pack record has no episode; a range record has no episode and its
\* range is a non-empty, strictly increasing list, also when the end number
\* of the notation is lower than its start number.
C24_RecordInvariant ==
    pc["req"] = "p_done" =>
        /\ info.kind = "pack" => info.episode = NoNumber
        /\ info.kind = "range" =>
              /\ info.episode = NoNumber
              /\ info.episode_range /= <<>>
              /\ \A k \in 1..(Len(info.episode_range) - 1) :
                    info.episode_range[k] < info.episode_range[k + 1]

\* C25: a text whose only notation is a range M..N, in any of the three
\* notations (SxxEyy-Ezz, SxxEyy-SxxEzz, "episodes M-N"), gives a range record
\* with the numbers M, M+1, .., N and the season of the notation where it
\* names one.
C25_RangeNotations ==
    LET range_words == {k \in 1..Len(words) : Lexicon[words[k]].form = "range"}
    IN /\ pc["req"] = "p_done"
       /\ range_words /= {}
       /\ \A k \in 1..Len(words) :
             /\ Lexicon[words[k]].form \in {"range", "filler"}
             /\ Lexicon[words[k]].first <= Lexicon[words[k]].last
       => /\ info.kind = "range"
          /\ \E k \in range_words :
                /\ info.episode_range =
                      range_list(Lexicon[words[k]].first, Lexicon[words[k]].last)
                /\ Lexicon[words[k]].season /= NoNumber
                      => info.season = Lexicon[words[k]].season

\* C26: a text with a season-pack phrasing for season N ("complete season N",
\* "full season N", "season N pack", "SN complete", "SN full", "SN complete
\* pack"; any case, with or without a leading zero) gives a pack record with
\* season N and no episode.
C26_PackPhrasings ==
    LET pack_words == {k \in 1..Len(words) : Lexicon[words[k]].form = "pack"}
    IN pc["req"] = "p_done" /\ pack_words /= {} =>
          /\ info.kind = "pack"
          /\ info.episode = NoNumber
          /\ info.episode_range = <<>>
          /\ \E k \in pack_words : info.season = Lexicon[words[k]].season

\* "show Full Season 02" has given the pack record of season 2
C26_Witness ==
    /\ pc["req"] = "p_done"
    /\ Len(words) = 2
    /\ Lexicon[words[1]].form = "filler"
    /\ Lexicon[words[2]].form = "pack"
    /\ Lexicon[words[2]].chars[1] = "F"
    /\ info = [Unparsable EXCEPT !.kind = "pack", !.season = 2]

\* C27: a text whose only notation is that of a single episode (SxxEyy, XxYY,
\* "Stagione X Episodio Y") gives exactly the season X and the episode Y.
C27_SingleEpisode ==
    LET single_words ==
            {k \in 1..Len(words) : Lexicon[words[k]].form = "single"}
    IN /\ pc["req"] = "p_done"
       /\ single_words /= {}
       /\ \A k \in 1..Len(words) :
             Lexicon[words[k]].form \in {"single", "filler"}
       => \E k \in single_words :
             info = [Unparsable EXCEPT !.kind = "single",
                                       !.season = Lexicon[words[k]].season,
                                       !.episode = Lexicon[words[k]].first]

\* "720p 1x02" has given season 1, episode 2
C27_Witness ==
    /\ pc["req"] = "p_done"
    /\ Len(words) = 2
    /\ Lexicon[words[1]].form = "filler"
    /\ Lexicon[words[2]].chars = <<"1", "x", "0", "2">>
    /\ info.kind = "single"
    /\ info.season = 1
    /\ info.episode = 2

\* C28: in a file name, a bare run of three or four digits is read as season
\* and episode only when no episode notation is there; and a season marker
\* (Season, Stagione or S with a number) without an episode notation gives
\* that season and no episode, whatever other digits the name contains.
C28_FilenameFallbacks ==
    LET form(k) == FileLexicon[words[k]].form
        all == 1..Len(words)
    IN pc["req"] = "f_done" =>
        /\ (\E k \in all : form(k) = "single") =>
              \E k \in all :
                 /\ form(k) = "single"
                 /\ parsed = <<FileLexicon[words[k]].season,
                               FileLexicon[words[k]].first>>
        /\ (\E k \in all : form(k) = "bare")
              /\ (\A k \in all : form(k) \in {"bare", "filler"}) =>
              \E k \in all :
                 /\ form(k) = "bare"
                 /\ parsed = <<FileLexicon[words[k]].season,
                               FileLexicon[words[k]].first>>
        /\ (\E k \in all : form(k) = "marker")
              /\ (\A k \in all : form(k) \in {"marker", "digits", "filler"}) =>
              \E k \in all :
                 /\ form(k) = "marker"
                 /\ parsed = <<FileLexicon[words[k]].season, NoNumber>>

\* C29: for each release link the text around the link is parsed first and
\* the display name of the link is used only when that text gives nothing:
\* a parsable context determines the season and the episode of the record.
C29_ContextFirst ==
    pc["req"] = "x_done" =>
        \A k \in 1..Len(links) :
            extract_episode_info(links[k].context).kind = "single" =>
                /\ k <= Len(expanded)
                /\ expanded[k].season =
                      extract_episode_info(links[k].context).season
                /\ expanded[k].episode =
                      extract_episode_info(links[k].context).episode

\* C30: expanding a thread gives one record for each release link, in page
\* order, each with the link it came from; a link whose name gives no season
\* and episode, or that has no display name, still gets its record, with
\* neither season nor episode.
C30_OneRecordPerLink ==
    pc["req"] = "x_done" =>
        /\ Len(expanded) = Len(links)
        /\ \A k \in 1..Len(links) :
              /\ expanded[k].magnet = Hrefs[links[k].href].id
              /\ Hrefs[links[k].href].season = NoNumber =>
                    /\ expanded[k].season = NoNumber
                    /\ expanded[k].episode = NoNumber

\* a link without a display name, then one named Show.S02E03: two records
C30_Witness ==
    /\ pc["req"] = "x_done"
    /\ Len(links) = 2
    /\ Hrefs[links[1].href].parts = <<[key |-> "xt", value |-> <<"h", "3">>]>>
    /\ Hrefs[links[2].href].id = 1
    /\ expanded[1].magnet = 3
    /\ expanded[1].title = <<>>
    /\ expanded[1].season = NoNumber
    /\ expanded[1].episode = NoNumber
    /\ expanded[2].magnet = 1
    /\ expanded[2].season = 2
    /\ expanded[2].episode = 3

\* C31: in one thread expansion the thanks link is requested at most once;
\* whenever it is requested, a delay of 5 to 15 has passed when the expansion
\* returns; when the first post shows no such link, there is no delay; and
\* whatever happens while looking for it or requesting it, the release links
\* of the thread are fetched.
C31_LikeOnceThenDelay ==
    /\ click.requests <= 1
    /\ pc["req"] = "k_done" =>
          /\ click.requests > 0 => click.delay \in 5..15
          /\ click.page /= "like" => click.requests = 0 /\ click.delay = 0
          /\ click.fetch /= "none"
          /\ click.fetch = "ok" => expanded = expand_page(links)

\* C32: in the filter for season N a completeness marker ("complete",
\* "completa") lets a title pass only when the title has no explicit season
\* token: a title that names another season, and not N, is not kept for N
\* because of the marker.
C32_MarkerOnlyWithoutToken ==
    LET tokens == {k \in 1..Len(words) : SeasonLexicon[words[k]].form = "token"}
        markers ==
            {k \in 1..Len(words) : SeasonLexicon[words[k]].form = "marker"}
    IN /\ pc["req"] = "c_done"
       /\ markers /= {}
       /\ tokens /= {}
       /\ \A k \in tokens : SeasonLexicon[words[k]].season /= season
       => in_season = "no"

\* C33: the wait computed before attempt k (k >= 2) is
\* min(initial_wait * 2^(k-2), 300); it never decreases from one attempt to
\* the next and never exceeds 300, so the wait with jitter never exceeds
\* 1.5 times 300 (here in halves: 3 * 300).
C33_BackoffCapped ==
    /\ [](attempt["req"] >= 1 =>
            /\ backoff.wait_time =
                  (IF initial_wait * 2 ^ (attempt["req"] - 1) < WaitCap
                   THEN initial_wait * 2 ^ (attempt["req"] - 1) ELSE WaitCap)
            /\ backoff.wait_time <= WaitCap
            /\ backoff.actual_wait <= 3 * WaitCap)
    /\ [][backoff'.wait_time >= backoff.wait_time]_vars

\* ninth attempt: the wait is at the cap, the jitter at its highest
C33_Witness ==
    /\ attempt["req"] = 8
    /\ backoff.wait_time = WaitCap
    /\ backoff.actual_wait = 3 * WaitCap

\* C34: without a season, or without a configured tracker, the search
\* returns the aggregated records themselves, in their order, and the tracker
\* is not asked.
C34_NoTrackerStageReturnsAll ==
    pc["req"] = "s_done" /\ (season = NoNumber \/ ~sonarr_api) =>
        /\ result = all_episodes
        /\ tracker_calls = 0
        /\ tracker = NoTracker

\* a season is given, no tracker is configured: both records are returned
C34_Witness ==
    /\ pc["req"] = "s_done"
    /\ season = 1
    /\ ~sonarr_api
    /\ Len(all_episodes) = 2
    /\ result = all_episodes

\* C35: with a missing set that is not empty, the filtered list is a
\* sub-list of the aggregated records in their order (nothing added, repeated
\* or moved) and holds no record without a season.
C35_FilterIsSublist ==
    pc["req"] = "s_done" /\ tracker.missing /= {} =>
        /\ Len(result) <= Len(all_episodes)
        /\ \E f \in [1..Len(result) -> 1..Len(all_episodes)] :
              /\ \A k \in 1..Len(result) : result[k] = all_episodes[f[k]]
              /\ \A j \in 1..Len(result) : \A k \in 1..Len(result) :
                    j < k => f[j] < f[k]
        /\ \A k \in 1..Len(result) : result[k].season /= NoNumber

\* of a record without season and a missing episode, the second alone is kept
C35_Witness ==
    /\ pc["req"] = "s_done"
    /\ tracker.missing = {<<1, 1>>}
    /\ Len(all_episodes) = 2
    /\ all_episodes[1].season = NoNumber
    /\ result = <<all_episodes[2]>>

\* C36: a season of zero or less is refused with ValueError before any
\* request to the forum or to the tracker, and nothing else is refused that
\* way; the Torznab request then gets the error document, not a feed.
C36_SeasonRejectedFirst ==
    /\ [](pc["req"] = "s_raised" =>
            /\ season /= NoNumber /\ season <= 0
            /\ stats["req"] = NoStats
            /\ searched = "no"
            /\ fetched = <<>>
            /\ tracker_calls = 0)
    /\ [](season /= NoNumber /\ season <= 0 => pc["req"] = "s_raised")
    /\ [][/\ pc["req"] = "s_raised" => reply' = torznab_error
          /\ pc["req"] = "s_done" => reply'.kind = "feed"]_vars

\* the error document has been sent
C36_Witness ==
    /\ pc["req"] = "r_idle"
    /\ reply.kind = "error"

\* C37: in one feed, items of different release links have different guids,
\* also two releases of the same season and episode from different threads.
C37_GuidsDistinct ==
    reply.kind = "feed" =>
        \A j \in 1..Len(reply.items) : \A k \in 1..Len(reply.items) :
            reply.items[j].link /= reply.items[k].link =>
                reply.items[j].guid /= reply.items[k].guid

\* C38: after any interleaving of like and unlike requests a user has at
\* most one active like on the thread; and a request answered with 400,
\* with nothing happening beside it, leaves the like rows, the history and
\* the cache as it found them.
C38_AtMostOneActiveLike ==
    /\ \A u \in Users : active_likes(db_likes, {u}) <= 1
    /\ \A r \in Requests :
          (frames[r].at = "done" /\ frames[r].status = 400
              /\ frames[r].beside = "no")
          => Tables = frames[r].before

\* C39: the total_likes of a successful request that no other request
\* overlapped is the number of active likes of the thread and is never
\* negative, whether or not the cached counter expired in between.
C39_TotalLikesIsActiveCount ==
    \A r \in Requests :
        (frames[r].at = "done" /\ frames[r].status = 200
            /\ frames[r].beside /= "request")
        => /\ frames[r].new_count = active_likes(db_likes, Users)
           /\ frames[r].new_count >= 0

\* C40: a request answered with 500, with nothing happening beside it,
\* leaves the like rows, the history, the cached mark of the user and the
\* cached counter as it found them.
C40_RollbackRestoresAll ==
    \A r \in Requests :
        (frames[r].at = "done" /\ frames[r].status = 500
            /\ frames[r].beside = "no")
        => Tables = frames[r].before

====
